---- MODULE Spec2Model ----
(***************************************************************************)
(* A model of the digital-human orchestration server:                      *)
(*   - ConversationPipeline.process (src/pipelines/conversation.py)         *)
(*   - APIService contexts and the REST handlers (src/api/routes.py)        *)
(***************************************************************************)
EXTENDS Integers, Sequences, FiniteSets, TLC

VARIABLES
    \* ---- ConversationPipeline: fields set by __init__ ----
    asr_engine,      \* TRUE iff self.asr_engine is not None
    llm_engine,      \* TRUE iff self.llm_engine is not None
    tts_engine,      \* TRUE iff self.tts_engine is not None
    agent_engine,    \* TRUE iff self.agent_engine is not None
    self_use_agent,  \* self.use_agent
    \* ---- one invocation of process(): arguments and locals ----
    pc,              \* position of the coroutine
    skip_asr, text_input, skip_llm, use_agent, skip_tts,
    use_agent_mode, asr_text, llm_text,
    result,          \* the result dict
    exc,             \* the exception raised inside the try block (None if none)
    calls,           \* history of engine invocations of this process() call
    \* ---- APIService ----
    contexts,        \* self.contexts: context id -> context dict
    pipeline,        \* TRUE iff self.pipeline is set
    now,             \* time.time()
    uuid_count,      \* number of uuid.uuid4() values drawn so far
    sent,            \* per context id, the messages passed to update_context so far
    update_count,    \* number of update_context calls made from outside the handlers
    \* ---- POST /api/text_chat ----
    rq,              \* the text_chat requests: position, arguments, locals, response
    history0,        \* the messages each context held before the requests
    \* ---- POST /api/audio_chat ----
    ac,              \* the audio_chat request: position, arguments, locals, response
    \* ---- APIService.clear_old_contexts ----
    sweep,           \* the calls made so far, and the argument and return value of the last
    \* ---- ConnectionManager and the WebSocket tasks (src/app.py), one connection id ----
    conn,            \* what the manager's dicts hold for the id, and the socket
    dis,             \* the invocations of disconnect(id): position and outcome
    task,            \* a process_text_input task created for the id
    torn,            \* TRUE once a disconnect(id) that found the connection has completed
    late,            \* what the task did for the id after that
    \* ---- EnginePool (src/engine/enginePool.py) ----
    engines,         \* self.engines: (kind, name) -> the cached instance, 0 if none
    attempts,        \* per (kind, name), the constructions attempted
    gets,            \* the getEngine calls made so far: key and returned instance
    closed,          \* per (kind, name), the calls of the cached engine's close()
    cl,              \* the invocation of closeAll(): position, iteration state, outcome
    \* ---- AudioProcessor's retry-wrapped calls (src/utils/audio_processor.py) ----
    rt,              \* the call in progress: method, position, provider attempts so far
    rlog,            \* the calls that ended: method, attempts, last provider outcome, result
    \* ---- the audio cache on disk (src/utils/audio_utils.py) ----
    files,           \* CACHE_DIR: cache key -> the file <key>.bin (existence, bytes, mtime)
    wr,              \* the save_to_cache call in progress
    saved,           \* per key, the bytes and time of the last save that succeeded
    rd,              \* the get_cached_audio calls made so far, and the key and result of the last
    \* ---- MinimaxIntegration.text_to_speech (src/minimax_integration.py) ----
    speech,          \* the text_to_speech call in progress: arguments and position
    speeches,        \* the last two calls that returned, in order: arguments, result, provider use
    \* ---- ConversationPipeline.tts_only over the MiniMax TTS engine ----
    synth,           \* the tts_only call in progress
    synths,          \* the calls that returned, in order: text, result, requests posted
    \* ---- POST /api/agent (src/api/routes.py) ----
    aq,              \* the agent_query request in progress, and the status of the last
    \* ---- one engine object: BaseEngine and its subclasses (src/engine) ----
    eng,             \* the object last constructed: class, config keys, outcome, session
    \* ---- DeepgramAPI.run and OpenAILLM.run (src/engine/asr, src/engine/llm) ----
    runs,            \* the run() calls that ended: engine, input, provider answer, outcome
    \* ---- the engine registries and factories (src/utils, src/engine) ----
    registries,      \* per registry, name -> the class registered under it
    fcall,           \* the register or create calls made so far, and the outcome of the last
    \* ---- AudioProcessor.transcribe (src/utils/audio_processor.py) ----
    tr,              \* the transcribe call in progress or last returned
    \* ---- the single-stage entry points (src/pipelines/conversation.py) ----
    single,          \* the asr_only, llm_only, tts_only or agent_only call in progress or last returned
    \* ---- two WebSockets under one client_id (src/app.py) ----
    manager,         \* the ConnectionManager's dicts at that client_id
    sockets,         \* per WebSocket: its state and the position of its handler
    \* ---- a connection's provider settings (src/app.py) ----
    ucfg,            \* user_configs[connection_id]: present or not, and its "providers" dict
    \* ---- compute_content_hash (src/utils/audio_utils.py) ----
    hashed,          \* two requests and the cache keys computed for them
    \* ---- WebRTCHandler at one connection id (src/webrtc_integration.py) ----
    rtc,             \* connections[connection_id], and the last call made on the handler
    \* ---- split_text_into_sentences (src/utils/audio_utils.py) ----
    split            \* a text, a max_chars and the chunks returned for them

pipeVars == <<asr_engine, llm_engine, tts_engine, agent_engine, self_use_agent,
              pc, skip_asr, text_input, skip_llm, use_agent, skip_tts,
              use_agent_mode, asr_text, llm_text, result, exc, calls>>

apiVars == <<contexts, pipeline, now, uuid_count, sent, update_count>>

chatVars == <<rq, history0>>

audioVars == <<ac>>

sweepVars == <<sweep>>

\* the components the REST handlers and the pipeline never touch
connVars == <<conn, dis, task, torn, late>>

poolVars == <<engines, attempts, gets, closed, cl>>

retryVars == <<rt, rlog>>

cacheVars == <<files, wr, saved, rd>>

speechVars == <<speech, speeches>>

synthVars == <<synth, synths>>

agentVars == <<aq>>

engVars == <<eng>>

runVars == <<runs>>

registryVars == <<registries, fcall>>

transcribeVars == <<tr>>

singleVars == <<single>>

socketVars == <<manager, sockets>>

userConfigVars == <<ucfg>>

hashVars == <<hashed>>

rtcVars == <<rtc>>

splitVars == <<split>>

extVars == <<sweepVars, connVars, poolVars, retryVars, cacheVars, speechVars, synthVars,
             agentVars,
             engVars,
             runVars,
             registryVars,
             transcribeVars,
             singleVars,
             socketVars,
             userConfigVars,
             hashVars,
             rtcVars,
             splitVars>>

vars == <<pipeVars, apiVars, chatVars, audioVars, extVars>>

\* what a step of process() leaves alone
outsidePipeline == <<apiVars, chatVars, audioVars, extVars>>

\* what a call of an APIService method leaves alone
outsideService == <<pipeVars, chatVars, audioVars, extVars>>

\* what a step of text_chat leaves alone, besides the service
outsideTextChat == <<pipeVars, audioVars, extVars>>

-----------------------------------------------------------------------------
(* Values *)

\* Python's None where a str (or a tri-state flag) is expected
None == "None"

\* the texts an engine or a caller can produce; "" is the empty string
Texts == {"", "hello", "world"}

\* Python truthiness of an Optional[str]
Truthy(s) == s /= None /\ s /= ""

\* Message objects as process() sees them: it reads only `.text`.
\*   kind "None"   : the Python value None
\*   kind "Text"   : an object whose .text is `text`
\*   kind "NoText" : an object without a .text attribute (utils.protocol.TextMessage
\*                   declares `data` and `desc` only)
\*   kind "Audio"  : an AudioMessage (text stands for its bytes)
NoMsg == [kind |-> "None", text |-> None]
Msg(t) == [kind |-> "Text", text |-> t]
NoTextMsg == [kind |-> "NoText", text |-> None]
Audio(t) == [kind |-> "Audio", text |-> t]

\* TextMessage(text=asr_text): pydantic ignores the unknown keyword `text`,
\* the object built has data=None and no .text attribute
TextMessage_text(t) == NoTextMsg

\* truthiness of an Optional[message]
IsObj(m) == m.kind /= "None"

\* what an awaited engine call can do: raise, or return a value
Raised == [raised |-> TRUE, value |-> NoMsg]
Returned(v) == [raised |-> FALSE, value |-> v]
TextOutcomes == {Raised} \cup {Returned(NoMsg), Returned(NoTextMsg)}
                  \cup {Returned(Msg(t)) : t \in Texts}
AudioOutcomes == {Raised, Returned(NoMsg)} \cup {Returned(Audio(t)) : t \in Texts \ {""}}

\* exceptions, by class
ValueErrors == {"ASR engine not initialized",
                "LLM engine and Agent engine not initialized",
                "TTS engine not initialized"}
EngineErrors == {"asr engine error", "llm engine error",
                 "agent engine error", "tts engine error"}
AttributeErrors == {"object has no attribute text"}
Exceptions == ValueErrors \cup EngineErrors \cup AttributeErrors

\* f"对话流水线处理失败: {str(e)}"
ErrorMsg(e) ==
    CASE e = "ASR engine not initialized" -> "pipeline failed: ASR engine not initialized"
      [] e = "LLM engine and Agent engine not initialized"
             -> "pipeline failed: LLM engine and Agent engine not initialized"
      [] e = "TTS engine not initialized" -> "pipeline failed: TTS engine not initialized"
      [] e = "asr engine error" -> "pipeline failed: asr engine error"
      [] e = "llm engine error" -> "pipeline failed: llm engine error"
      [] e = "agent engine error" -> "pipeline failed: agent engine error"
      [] e = "tts engine error" -> "pipeline failed: tts engine error"
      [] e = "object has no attribute text" -> "pipeline failed: object has no attribute text"

-----------------------------------------------------------------------------
(* ConversationPipeline.__init__ *)

\* the configurations __init__ can leave behind: ASR, LLM and TTS engines exist
\* iff enabled; AgentFactory.create may return None although AGENT.ENABLED
PipelineInit ==
    /\ asr_engine \in BOOLEAN
    /\ llm_engine \in BOOLEAN
    /\ tts_engine \in BOOLEAN
    /\ \E enabled \in BOOLEAN :
          /\ agent_engine \in {a \in BOOLEAN : a => enabled}
          /\ self_use_agent = (enabled /\ agent_engine)

-----------------------------------------------------------------------------
(* ConversationPipeline.process *)

InitResult == [asr_result |-> NoMsg, llm_result |-> NoMsg, agent_result |-> NoMsg,
               tts_result |-> NoMsg, error |-> None]

\* a pipeline that ignores the per-call use_agent argument
UseAgentMode_ConfigOnly(cfg, arg) == cfg

\* use_agent_mode = self.use_agent if use_agent is None else use_agent
UseAgentMode(cfg, arg) == IF arg = None THEN cfg ELSE arg = "True"

\* a test `is None` in place of `not`
Empty_NoneOnly(t) == t = None

\* `if not asr_text` / `if not llm_text`: the stage produced nothing
Empty(t) == ~Truthy(t)

\* a TTS stage that falls back to the recognised text when there is no reply
TextToSpeak_EchoInput(res) ==
    IF IsObj(res.agent_result) THEN res.agent_result.text
    ELSE IF IsObj(res.llm_result) THEN res.llm_result.text
    ELSE IF res.asr_result.kind = "Text" THEN res.asr_result.text
    ELSE None

\* the text handed to TTS
TextToSpeak(res) ==
    IF IsObj(res.agent_result) THEN res.agent_result.text
    ELSE IF IsObj(res.llm_result) THEN res.llm_result.text
    ELSE None

\* a handler `except ValueError`
Catches_ValueErrorOnly(e) == e \in ValueErrors

\* `except Exception as e` catches every exception class of the model
Catches(e) == e \in Exceptions

\* the except block: result["error"] = error_msg
HandleException(res, e) == [res EXCEPT !.error = ErrorMsg(e)]

\* an exception e leaves the try block with the result dict as `res`
Raise(e, res) ==
    /\ exc' = e
    /\ IF Catches(e)
         THEN result' = HandleException(res, e) /\ pc' = "returned"
         ELSE result' = res /\ pc' = "raised"

\* `return result`
Return(res) == result' = res /\ pc' = "returned" /\ exc' = exc

\* an engine call that has not ended yet
Pending == [raised |-> FALSE, value |-> [kind |-> "Pending", text |-> None]]

Invoke(engine, arg) ==
    calls' = Append(calls, [engine |-> engine, arg |-> arg, ret |-> Pending])

\* the awaited call of the last entry ended with outcome `out`
Complete(out) == calls' = [calls EXCEPT ![Len(calls)].ret = out]

ProcessIdle ==
    /\ pc = "idle"
    /\ skip_asr = FALSE /\ text_input = None /\ skip_llm = FALSE
    /\ use_agent = None /\ skip_tts = FALSE
    /\ use_agent_mode = FALSE /\ asr_text = None /\ llm_text = None
    /\ result = InitResult /\ exc = None /\ calls = <<>>

\* entry of process(): the result dict and use_agent_mode
ProcessCall(sa, ti, sl, ua, st) ==
    /\ pc = "idle"
    /\ skip_asr' = sa /\ text_input' = ti /\ skip_llm' = sl
    /\ use_agent' = ua /\ skip_tts' = st
    /\ result' = InitResult
    /\ use_agent_mode' = UseAgentMode(self_use_agent, ua)
    /\ pc' = "asr"
    /\ UNCHANGED <<asr_engine, llm_engine, tts_engine, agent_engine, self_use_agent,
                   asr_text, llm_text, exc, calls>>

\* a test of skip_asr alone
AsrSkipped_FlagOnly(sa, ti) == sa

\* `if skip_asr or text_input`
AsrSkipped(sa, ti) == sa \/ Truthy(ti)

\* step 1 up to the await of asr_engine.transcribe
AsrStage ==
    /\ pc = "asr"
    /\ IF AsrSkipped(skip_asr, text_input)
         THEN /\ asr_text' = text_input
              /\ result' = [result EXCEPT !.asr_result =
                               IF Truthy(text_input) THEN TextMessage_text(text_input)
                               ELSE NoMsg]
              /\ pc' = "llm"
              /\ UNCHANGED <<exc, calls>>
         ELSE IF ~asr_engine
           THEN /\ Raise("ASR engine not initialized", result)
                /\ UNCHANGED <<asr_text, calls>>
           ELSE /\ Invoke("asr", "audio")
                /\ pc' = "asr_await"
                /\ UNCHANGED <<asr_text, result, exc>>
    /\ UNCHANGED outsidePipeline
    /\ UNCHANGED <<asr_engine, llm_engine, tts_engine, agent_engine, self_use_agent,
                   skip_asr, text_input, skip_llm, use_agent, skip_tts,
                   use_agent_mode, llm_text>>

\* asr_engine.transcribe ends; the rest of step 1
AsrReturn(out) ==
    /\ pc = "asr_await"
    /\ IF out.raised
         THEN /\ Complete(out)
              /\ Raise("asr engine error", result)
              /\ UNCHANGED asr_text
         ELSE LET res == [result EXCEPT !.asr_result = out.value] IN
              /\ Complete(out)
              /\ IF out.value.kind = "NoText"
                   THEN Raise("object has no attribute text", res) /\ UNCHANGED asr_text
                   ELSE /\ asr_text' = out.value.text
                        /\ IF Empty(out.value.text)
                             THEN Return(res)
                             ELSE result' = res /\ pc' = "llm" /\ UNCHANGED exc
    /\ UNCHANGED outsidePipeline
    /\ UNCHANGED <<asr_engine, llm_engine, tts_engine, agent_engine, self_use_agent,
                   skip_asr, text_input, skip_llm, use_agent, skip_tts,
                   use_agent_mode, llm_text>>

\* step 2 up to the await of agent_engine.process / llm_engine.generate
LlmStage ==
    /\ pc = "llm"
    /\ IF skip_llm
         THEN pc' = "tts" /\ UNCHANGED <<result, exc, calls>>
         ELSE IF use_agent_mode /\ agent_engine
           THEN Invoke("agent", asr_text) /\ pc' = "agent_await" /\ UNCHANGED <<result, exc>>
           ELSE IF llm_engine
             THEN Invoke("llm", asr_text) /\ pc' = "llm_await" /\ UNCHANGED <<result, exc>>
             ELSE Raise("LLM engine and Agent engine not initialized", result)
                  /\ UNCHANGED calls
    /\ UNCHANGED outsidePipeline
    /\ UNCHANGED <<asr_engine, llm_engine, tts_engine, agent_engine, self_use_agent,
                   skip_asr, text_input, skip_llm, use_agent, skip_tts,
                   use_agent_mode, asr_text, llm_text>>

\* the rest of step 2 once the engine call `field` belongs to has ended
ReplyReturn(out, field, err) ==
    /\ IF out.raised
         THEN /\ Complete(out)
              /\ Raise(err, result)
              /\ UNCHANGED llm_text
         ELSE LET res == [result EXCEPT ![field] = out.value] IN
              /\ Complete(out)
              /\ IF out.value.kind = "NoText"
                   THEN Raise("object has no attribute text", res) /\ UNCHANGED llm_text
                   ELSE /\ llm_text' = out.value.text
                        /\ IF Empty(out.value.text)
                             THEN Return(res)
                             ELSE result' = res /\ pc' = "tts" /\ UNCHANGED exc
    /\ UNCHANGED outsidePipeline
    /\ UNCHANGED <<asr_engine, llm_engine, tts_engine, agent_engine, self_use_agent,
                   skip_asr, text_input, skip_llm, use_agent, skip_tts,
                   use_agent_mode, asr_text>>

AgentReturn(out) == pc = "agent_await" /\ ReplyReturn(out, "agent_result", "agent engine error")

LlmReturn(out) == pc = "llm_await" /\ ReplyReturn(out, "llm_result", "llm engine error")

\* step 3 up to the await of tts_engine.synthesize
TtsStage ==
    /\ pc = "tts"
    /\ IF skip_tts
         THEN Return(result) /\ UNCHANGED calls
         ELSE IF ~tts_engine
           THEN Raise("TTS engine not initialized", result) /\ UNCHANGED calls
           ELSE IF Truthy(TextToSpeak(result))
             THEN Invoke("tts", TextToSpeak(result)) /\ pc' = "tts_await"
                  /\ UNCHANGED <<result, exc>>
             ELSE Return(result) /\ UNCHANGED calls
    /\ UNCHANGED outsidePipeline
    /\ UNCHANGED <<asr_engine, llm_engine, tts_engine, agent_engine, self_use_agent,
                   skip_asr, text_input, skip_llm, use_agent, skip_tts,
                   use_agent_mode, asr_text, llm_text>>

\* tts_engine.synthesize ends
TtsReturn(out) ==
    /\ pc = "tts_await"
    /\ IF out.raised
         THEN Complete(out) /\ Raise("tts engine error", result)
         ELSE Complete(out)
              /\ Return([result EXCEPT !.tts_result = out.value])
    /\ UNCHANGED outsidePipeline
    /\ UNCHANGED <<asr_engine, llm_engine, tts_engine, agent_engine, self_use_agent,
                   skip_asr, text_input, skip_llm, use_agent, skip_tts,
                   use_agent_mode, asr_text, llm_text>>

ProcessStep ==
    \/ AsrStage
    \/ \E out \in TextOutcomes : AsrReturn(out)
    \/ LlmStage
    \/ \E out \in TextOutcomes : AgentReturn(out)
    \/ \E out \in TextOutcomes : LlmReturn(out)
    \/ TtsStage
    \/ \E out \in AudioOutcomes : TtsReturn(out)

-----------------------------------------------------------------------------
(* APIService: conversation contexts (src/api/routes.py) *)

\* bounds of the model
MaxUuids == 2
MaxTime == 1
MaxUpdates == 3

\* context ids: the Python values None and "" (falsy), ids chosen by clients,
\* and the values of str(uuid.uuid4())
NoId == [kind |-> "none", n |-> 0]
ClientIds == {[kind |-> "client", n |-> i] : i \in 1..2}
Uuid(k) == [kind |-> "uuid", n |-> k]

\* the message dicts handlers and callers store
Entry(role, content) == [role |-> role, content |-> content]
Entries == {Entry("user", "hello"), Entry("assistant", "world")}

\* APIService.__init__
ApiServiceInit ==
    /\ contexts = <<>>
    /\ now = 0
    /\ uuid_count = 0
    /\ sent = [id \in ClientIds |-> <<>>]
    /\ update_count = 0

\* the key get_context(context_id) works on: context_id, or a fresh uuid
\* when context_id is falsy
ContextKey(context_id, k) == IF context_id = NoId THEN Uuid(k + 1) ELSE context_id

\* get_context draws a uuid
DrawsUuid(context_id) == context_id = NoId

NewContext(t) == [messages |-> <<>>, created_at |-> t, last_access |-> t]

\* self.contexts after get_context(context_id) at time t, k uuids drawn before
get_context(ctxs, context_id, t, k) ==
    LET key == ContextKey(context_id, k) IN
    IF context_id = NoId \/ context_id \notin DOMAIN ctxs
      THEN [c \in DOMAIN ctxs \cup {key} |-> IF c = key THEN NewContext(t) ELSE ctxs[c]]
      ELSE [ctxs EXCEPT ![context_id].last_access = t]

\* context["messages"].insert(0, message)
Store_Prepend(messages, message) == <<message>> \o messages

\* context["messages"].append(message)
Store(messages, message) == Append(messages, message)

\* self.contexts after update_context(context_id, message)
update_context(ctxs, context_id, message, t, k) ==
    LET key == ContextKey(context_id, k)
        got == get_context(ctxs, context_id, t, k)
    IN  [got EXCEPT ![key].messages = Store(got[key].messages, message)]

\* a call of get_context from outside the handlers
GetContext(id) ==
    /\ DrawsUuid(id) => uuid_count < MaxUuids
    /\ contexts' = get_context(contexts, id, now, uuid_count)
    /\ uuid_count' = IF DrawsUuid(id) THEN uuid_count + 1 ELSE uuid_count
    /\ UNCHANGED <<pipeline, now, sent, update_count>>
    /\ UNCHANGED outsideService

\* a call of update_context from outside the handlers
UpdateContext(id, m) ==
    /\ DrawsUuid(id) => uuid_count < MaxUuids
    /\ update_count < MaxUpdates
    /\ contexts' = update_context(contexts, id, m, now, uuid_count)
    /\ uuid_count' = IF DrawsUuid(id) THEN uuid_count + 1 ELSE uuid_count
    /\ sent' = IF id \in ClientIds THEN [sent EXCEPT ![id] = Append(@, m)] ELSE sent
    /\ update_count' = update_count + 1
    /\ UNCHANGED <<pipeline, now>>
    /\ UNCHANGED outsideService

\* time passes
Tick ==
    /\ now < MaxTime
    /\ now' = now + 1
    /\ UNCHANGED <<contexts, pipeline, uuid_count, sent, update_count>>
    /\ UNCHANGED outsideService


-----------------------------------------------------------------------------
(* APIService.clear_old_contexts (src/api/routes.py) *)

\* bounds of the model
MaxSweeps == 2
MaxHalfHours == 3

\* `/ 3600`
SecondsPerHour == 3600

\* what a call of clear_old_contexts leaves alone, besides the service
outsideSweep == <<pipeVars, chatVars, audioVars, connVars, poolVars, retryVars, cacheVars, speechVars,
                  synthVars, agentVars,
                  engVars,
                  runVars,
                  registryVars,
                  transcribeVars,
                  singleVars,
                  socketVars,
                  userConfigVars,
                  hashVars,
                  rtcVars,
                  splitVars>>

NoSweep == [n |-> 0, max_age_hours |-> 0, returned |-> 0]

SweepIdle == sweep = NoSweep

\* a sweep that ages the contexts from their creation
Old_SinceCreation(ctxs, t, max_age_hours) ==
    {c \in DOMAIN ctxs : t - ctxs[c].created_at > max_age_hours * SecondsPerHour}

\* old_contexts: (now - context["last_access"]) / 3600 > max_age_hours, the
\* division being exact
Old(ctxs, t, max_age_hours) ==
    {c \in DOMAIN ctxs : t - ctxs[c].last_access > max_age_hours * SecondsPerHour}

\* self.contexts after clear_old_contexts(max_age_hours) at time t
clear_old_contexts(ctxs, t, max_age_hours) ==
    [c \in DOMAIN ctxs \ Old(ctxs, t, max_age_hours) |-> ctxs[c]]

\* a call of clear_old_contexts
ClearOldContexts(max_age_hours) ==
    /\ sweep.n < MaxSweeps
    /\ contexts' = clear_old_contexts(contexts, now, max_age_hours)
    /\ sweep' = [n |-> sweep.n + 1, max_age_hours |-> max_age_hours,
                 returned |-> Cardinality(Old(contexts, now, max_age_hours))]
    /\ UNCHANGED <<pipeline, now, uuid_count, sent, update_count>>
    /\ UNCHANGED outsideSweep

\* half an hour passes
HalfHourPasses ==
    /\ now < MaxHalfHours * (SecondsPerHour \div 2)
    /\ now' = now + SecondsPerHour \div 2
    /\ UNCHANGED <<contexts, pipeline, uuid_count, sent, update_count>>
    /\ UNCHANGED outsideService

-----------------------------------------------------------------------------
(* POST /api/text_chat (src/api/routes.py) *)

\* number of text_chat requests in flight at once
NumRequests == 2

Requests == 1..NumRequests

RequestTexts == {"hello", "world"}

\* a utils.protocol.TextMessage whose data is d
TextMessage(d) == [kind |-> "TextMessage", text |-> d]

\* what llm_engine.run can do
LlmRunOutcomes == {Raised, Returned(NoMsg), Returned(TextMessage("hi")), Returned(TextMessage(""))}

\* what tts_engine.run can do
TtsRunOutcomes == {Raised, Returned(NoMsg), Returned(Audio("hi"))}

\* llm_only / tts_only: an exception of the engine becomes None
OrNone(out) == IF out.raised THEN NoMsg ELSE out.value

NoResponse == [context_id |-> NoId, response_text |-> None, audio_data |-> NoMsg]

IdleRequest == [pc |-> "idle", text |-> None, request_context_id |-> NoId,
                skip_tts |-> FALSE, context_id |-> NoId, llm_result |-> NoMsg,
                audio_output |-> NoMsg, status |-> 0, response |-> NoResponse,
                overlapped |-> FALSE]

TextChatIdle ==
    /\ rq = [r \in Requests |-> IdleRequest]
    /\ history0 = [c \in DOMAIN contexts |-> contexts[c].messages]

\* the context_id of a client that has talked to the service before
ReturningClient == [kind |-> "client", n |-> 1]

\* an exchange stored by an earlier request
EarlierTurn == <<Entry("user", "earlier"), Entry("assistant", "reply")>>

\* the service when the requests arrive: no context yet, or a context of a
\* client that holds an earlier exchange
ApiServiceBusyInit ==
    /\ pipeline \in BOOLEAN
    /\ now = 0 /\ uuid_count = 0 /\ update_count = 0
    /\ sent = [id \in ClientIds |-> <<>>]
    /\ \/ contexts = <<>>
       \/ contexts = [c \in {ReturningClient} |->
                        [NewContext(0) EXCEPT !.messages = EarlierTurn]]

\* a handler that stores the user entry before it awaits the model
TurnEntries_UserFirst(text, reply) ==
    [before |-> <<Entry("user", text)>>, after |-> <<Entry("assistant", reply)>>]

\* the entries text_chat stores before its first await, and after its last
TurnEntries(text, reply) ==
    [before |-> <<>>, after |-> <<Entry("user", text), Entry("assistant", reply)>>]

\* successive update_context(context_id, e) for the entries e of es
RECURSIVE update_all(_, _, _, _, _)
update_all(ctxs, context_id, es, t, k) ==
    IF es = <<>> THEN ctxs
    ELSE update_all(update_context(ctxs, context_id, Head(es), t, k),
                    context_id, Tail(es), t, k)

\* a handler that never tests llm_result
LlmFailed_Never(llm_result) == FALSE

\* `if not llm_result`
LlmFailed(llm_result) == ~IsObj(llm_result)

InFlight(r) == rq[r].pc \in {"llm_await", "tts_await"}

\* request r ends with HTTP 500
Fail(r, req) == rq' = [rq EXCEPT ![r] = [req EXCEPT !.pc = "done", !.status = 500]]

\* the tail of text_chat: the response, the two update_context calls, return
Respond(r, req, ctxs) ==
    LET response_text == req.llm_result.text IN
    /\ contexts' = update_all(ctxs, req.context_id,
                              TurnEntries(req.text, response_text).after, now, uuid_count)
    /\ rq' = [rq EXCEPT ![r] =
                [req EXCEPT !.pc = "done", !.status = 200,
                            !.response = [context_id |-> req.context_id,
                                          response_text |-> response_text,
                                          audio_data |-> req.audio_output]]]

\* text_chat from its entry to the await of llm_engine.run; the requests are
\* numbered in their order of arrival
TextChatCall(r, text, cid, skip) ==
    /\ rq[r].pc = "idle"
    /\ \A q \in Requests : q < r => rq[q].pc /= "idle"
    /\ LET others == {q \in Requests : InFlight(q)}
           req == [rq[r] EXCEPT !.text = text, !.request_context_id = cid,
                                !.skip_tts = skip, !.overlapped = (others /= {})]
           seen == [q \in Requests |->
                      IF q \in others
                        THEN [rq[q] EXCEPT !.overlapped = TRUE] ELSE rq[q]]
       IN
       IF ~pipeline
         THEN /\ rq' = [seen EXCEPT ![r] = [req EXCEPT !.pc = "done", !.status = 500]]
              /\ UNCHANGED <<contexts, uuid_count>>
         ELSE
           /\ cid = NoId => uuid_count < MaxUuids
           /\ uuid_count' = IF cid = NoId THEN uuid_count + 1 ELSE uuid_count
           /\ LET context_id == IF cid = NoId THEN Uuid(uuid_count + 1) ELSE cid
                  got == get_context(contexts, context_id, now, uuid_count')
                  req2 == [req EXCEPT !.context_id = context_id]
              IN
              /\ contexts' = update_all(got, context_id,
                                        TurnEntries(text, None).before, now, uuid_count')
              /\ IF ~llm_engine
                   THEN rq' = [seen EXCEPT ![r] = [req2 EXCEPT !.pc = "done", !.status = 500]]
                   ELSE rq' = [seen EXCEPT ![r] = [req2 EXCEPT !.pc = "llm_await"]]
    /\ UNCHANGED <<pipeline, now, sent, update_count, history0>>
    /\ UNCHANGED outsideTextChat

\* llm_engine.run ends; text_chat up to the await of tts_engine.run, or to its end
TextChatLlmReturn(r, out) ==
    /\ rq[r].pc = "llm_await"
    /\ LET req == [rq[r] EXCEPT !.llm_result = OrNone(out)] IN
       IF LlmFailed(req.llm_result)
         THEN Fail(r, req) /\ UNCHANGED contexts
         ELSE IF ~req.skip_tts /\ tts_engine
           THEN rq' = [rq EXCEPT ![r] = [req EXCEPT !.pc = "tts_await"]]
                /\ UNCHANGED contexts
           ELSE Respond(r, req, contexts)
    /\ UNCHANGED <<pipeline, now, uuid_count, sent, update_count, history0>>
    /\ UNCHANGED outsideTextChat

\* tts_engine.run ends; text_chat to its end
TextChatTtsReturn(r, out) ==
    /\ rq[r].pc = "tts_await"
    /\ Respond(r, [rq[r] EXCEPT !.audio_output = OrNone(out)], contexts)
    /\ UNCHANGED <<pipeline, now, uuid_count, sent, update_count, history0>>
    /\ UNCHANGED outsideTextChat

-----------------------------------------------------------------------------
(* POST /api/audio_chat (src/api/routes.py) *)

\* the values of AudioFormatType
AudioFormatTypes == {"mp3", "wav", "webm", "ogg"}

\* request payloads: text that is not base64, the encoding of zero bytes, and
\* the encoding of some audio; base64.b64decode raises on the first
Base64Ok(audio_data) == audio_data /= "not base64"

IdleAudioChat == [pc |-> "idle", audio_data |-> None, audio_format |-> None,
                  request_context_id |-> NoId, context_id |-> NoId,
                  status |-> 0, response |-> NoResponse]

AudioChatIdle == ac = IdleAudioChat

\* `key in d` for a dict d
HasKey(d, key) == key \in DOMAIN d

\* d.get(key, default) for a dict d
Get(d, key, default) == IF key \in DOMAIN d THEN d[key] ELSE default

\* audio_chat from its entry to the await of pipeline.process
AudioChatCall(audio_data, audio_format, cid, sa, sl, st) ==
    /\ ac.pc = "idle" /\ pc = "idle"
    /\ LET req == [ac EXCEPT !.audio_data = audio_data, !.audio_format = audio_format,
                             !.request_context_id = cid]
       IN
       IF ~pipeline \/ ~Base64Ok(audio_data) \/ audio_format \notin AudioFormatTypes
         THEN /\ ac' = [req EXCEPT !.pc = "done", !.status = 500]
              /\ UNCHANGED <<contexts, uuid_count, pipeVars>>
         ELSE /\ cid = NoId => uuid_count < MaxUuids
              /\ uuid_count' = IF cid = NoId THEN uuid_count + 1 ELSE uuid_count
              /\ LET context_id == IF cid = NoId THEN Uuid(uuid_count + 1) ELSE cid IN
                 /\ contexts' = get_context(contexts, context_id, now, uuid_count')
                 /\ ac' = [req EXCEPT !.pc = "processing", !.context_id = context_id]
              /\ ProcessCall(sa, None, sl, None, st)
    /\ UNCHANGED <<pipeline, now, sent, update_count, chatVars, extVars>>

\* pipeline.process has returned; audio_chat to its end
AudioChatReturn ==
    /\ ac.pc = "processing" /\ pc = "returned"
    /\ IF HasKey(result, "error")
         THEN /\ ac' = [ac EXCEPT !.pc = "done", !.status = 500]
              /\ UNCHANGED contexts
         ELSE /\ ac' = [ac EXCEPT !.pc = "done", !.status = 200,
                          !.response = [context_id |-> ac.context_id,
                                        response_text |-> Get(result, "response_text", ""),
                                        audio_data |-> Get(result, "audio_output", NoMsg)]]
              /\ contexts' = update_all(contexts, ac.context_id,
                                <<Entry("user", Get(result, "input_text", "")),
                                  Entry("assistant", Get(result, "response_text", ""))>>,
                                now, uuid_count)
    /\ UNCHANGED <<pipeline, now, uuid_count, sent, update_count, chatVars, pipeVars, extVars>>

-----------------------------------------------------------------------------
(* ConnectionManager and the WebSocket background tasks (src/app.py) *)

\* number of disconnect(id) invocations that can overlap
NumDisconnects == 2

Disconnects == 1..NumDisconnects

\* what the WebSocket machinery leaves alone
outsideConn == <<pipeVars, apiVars, chatVars, audioVars, sweepVars, poolVars, retryVars, cacheVars, speechVars,
                  synthVars, agentVars,
                  engVars,
                  runVars,
                  registryVars,
                  transcribeVars,
                  singleVars,
                  socketVars,
                  userConfigVars,
                  hashVars,
                  rtcVars,
                  splitVars>>

\* DEFAULT_PROVIDERS, llm and tts
DefaultProviders == [llm |-> "google", tts |-> "google"]

Providers == {"google", "minimax"}

\* ConnectionManager.__init__, for the one id: nothing is registered
NoConnection == [active |-> FALSE, processor |-> FALSE, chain |-> FALSE,
                 config |-> FALSE, providers |-> DefaultProviders,
                 connected |-> FALSE, close_calls |-> 0]

IdleDisconnect == [pc |-> "idle", found |-> FALSE, close_raised |-> FALSE, raised |-> FALSE]

NoTask == [pc |-> "none", live_config |-> FALSE]

ConnIdle ==
    /\ conn = NoConnection
    /\ dis = [d \in Disconnects |-> IdleDisconnect]
    /\ task = NoTask
    /\ torn = FALSE
    /\ late = {}

\* ConnectionManager.connect, after websocket.accept()
Connect ==
    /\ ~conn.connected
    /\ conn' = [conn EXCEPT !.active = TRUE, !.processor = TRUE, !.chain = TRUE,
                            !.config = TRUE, !.providers = DefaultProviders,
                            !.connected = TRUE]
    /\ UNCHANGED <<dis, task, torn, late>>
    /\ UNCHANGED outsideConn

\* ConnectionManager.update_user_config with a choice of providers
UpdateUserConfig(llm, tts) ==
    /\ conn.config
    /\ conn' = [conn EXCEPT !.providers = [llm |-> llm, tts |-> tts]]
    /\ UNCHANGED <<dis, task, torn, late>>
    /\ UNCHANGED outsideConn

\* a disconnect whose outer handler lets the exception through
DisconnectCatches_Nothing(e) == FALSE

\* the outer `except Exception` of disconnect
DisconnectCatches(e) == e \in {"KeyError", "RuntimeError"}

\* disconnect from its entry to the await of websocket.close()
DisconnectCall(d) ==
    /\ dis[d].pc = "idle"
    /\ IF ~conn.active
         THEN /\ dis' = [dis EXCEPT ![d].pc = "done"]
              /\ UNCHANGED conn
         ELSE /\ dis' = [dis EXCEPT ![d].pc = "closing", ![d].found = TRUE]
              /\ conn' = [conn EXCEPT !.processor = FALSE, !.chain = FALSE,
                                      !.config = FALSE,
                                      !.close_calls = @ + 1]
    /\ UNCHANGED <<task, torn, late>>
    /\ UNCHANGED outsideConn

\* websocket.close() ends, by returning or by raising; disconnect to its end.
\* The inner handler swallows the exception of close; `del
\* self.active_connections[connection_id]` raises KeyError when the record
\* is gone, and the outer handler deletes the record if it is still there.
DisconnectClose(d, close_raised) ==
    /\ dis[d].pc = "closing"
    /\ LET e == IF conn.active THEN None ELSE "KeyError" IN
       /\ dis' = [dis EXCEPT ![d].pc = "done", ![d].close_raised = close_raised,
                             ![d].raised = (e /= None /\ ~DisconnectCatches(e))]
       /\ conn' = [conn EXCEPT !.active = FALSE]
    /\ torn' = TRUE
    /\ UNCHANGED <<task, late>>
    /\ UNCHANGED outsideConn

\* manager.send_message / send_bytes from a task: a send happens only while
\* the connection record exists
Sends == IF conn.active THEN {"send"} ELSE {}

\* what the task has done after the connection was torn down
Late(done) == IF torn THEN late \cup done ELSE late

\* asyncio.create_task(process_text_input(connection_id, text)) in the
\* message loop of websocket_endpoint
CreateTask ==
    /\ task.pc = "none"
    /\ conn.active
    /\ task' = [task EXCEPT !.pc = "created"]
    /\ UNCHANGED <<conn, dis, torn, late>>
    /\ UNCHANGED outsideConn

\* process_text_input from its entry to the send of "thinking"
TaskStart ==
    /\ task.pc = "created"
    /\ task' = [pc |-> "thinking", live_config |-> conn.config]
    /\ late' = Late(Sends)
    /\ UNCHANGED <<conn, dis, torn>>
    /\ UNCHANGED outsideConn

\* the providers the task reads from its user_config
TaskProviders == IF task.live_config THEN conn.providers ELSE DefaultProviders

\* the LLM stage up to the await of the provider: llm_chain.ainvoke on the
\* chain of the id (AttributeError when it is gone), or minimax.chat_completion
TaskLlm ==
    /\ task.pc = "thinking"
    /\ IF TaskProviders.llm = "google" /\ ~conn.chain
         THEN task' = [task EXCEPT !.pc = "done"] /\ late' = Late(Sends)
         ELSE task' = [task EXCEPT !.pc = "llm_await"] /\ late' = Late({"llm"})
    /\ UNCHANGED <<conn, dis, torn>>
    /\ UNCHANGED outsideConn

\* the provider of the TTS stage is called: audio_processor.synthesize of the
\* id's processor (AttributeError when it is gone), or minimax.text_to_speech
TtsCall(sent_before) ==
    IF TaskProviders.tts = "google" /\ ~conn.processor
      THEN task' = [task EXCEPT !.pc = "done"] /\ late' = Late(sent_before \cup Sends)
      ELSE task' = [task EXCEPT !.pc = IF TaskProviders.tts = "google"
                                         THEN "tts_await" ELSE "minimax_tts_await"]
           /\ late' = Late(sent_before \cup {"tts"})

\* the LLM provider ends; the send of the reply and the TTS stage up to its await
TaskLlmReturn(raised) ==
    /\ task.pc = "llm_await"
    /\ IF raised
         THEN task' = [task EXCEPT !.pc = "done"] /\ late' = Late(Sends)
         ELSE TtsCall(Sends)
    /\ UNCHANGED <<conn, dis, torn>>
    /\ UNCHANGED outsideConn

\* minimax.text_to_speech ends; on failure the task falls back to
\* audio_processor.synthesize
TaskMinimaxTtsReturn(success) ==
    /\ task.pc = "minimax_tts_await"
    /\ IF success
         THEN task' = [task EXCEPT !.pc = "done"] /\ late' = Late(Sends)
         ELSE IF conn.processor
           THEN task' = [task EXCEPT !.pc = "tts_await"] /\ late' = Late({"tts"})
           ELSE task' = [task EXCEPT !.pc = "done"] /\ late' = Late(Sends)
    /\ UNCHANGED <<conn, dis, torn>>
    /\ UNCHANGED outsideConn

\* audio_processor.synthesize ends; the send of the audio (or of the error)
TaskTtsReturn ==
    /\ task.pc = "tts_await"
    /\ task' = [task EXCEPT !.pc = "done"]
    /\ late' = Late(Sends)
    /\ UNCHANGED <<conn, dis, torn>>
    /\ UNCHANGED outsideConn

-----------------------------------------------------------------------------
(* EnginePool (src/engine/enginePool.py) *)

\* number of getEngine calls
MaxGets == 3

\* what the pool leaves alone
outsidePool == <<pipeVars, apiVars, chatVars, audioVars, sweepVars, connVars, retryVars, cacheVars, speechVars,
                  synthVars, agentVars,
                  engVars,
                  runVars,
                  registryVars,
                  transcribeVars,
                  singleVars,
                  socketVars,
                  userConfigVars,
                  hashVars,
                  rtcVars,
                  splitVars>>

\* EngineType, in the order of the keys of self.engines
EngineTypes == <<"asr", "llm", "tts">>

EngineNames == {"minimax", "deepgram"}

Keys == {<<EngineTypes[i], n>> : i \in 1..Len(EngineTypes), n \in EngineNames}

\* hasattr(engine, 'close'): of the engine classes only MiniMaxLLM defines close
HasClose(key) == key = <<"llm", "minimax">>

NotClosing == [pc |-> "idle", kind |-> 1, visited |-> {}, size |-> 0,
               awaiting |-> <<>>, cached0 |-> {}, raised |-> FALSE]

\* EnginePool.__init__
PoolInit ==
    /\ engines = [k \in Keys |-> 0]
    /\ attempts = [k \in Keys |-> 0]
    /\ gets = <<>>
    /\ closed = [k \in Keys |-> 0]
    /\ cl = NotClosing

\* a pool that never finds the engine in its dict
Cached_Never(e, key) == FALSE

\* `engine_name in self.engines[engine_type]`
Cached(e, key) == e[key] /= 0

\* a pool that stores whatever the construction left
Stores_Always(built) == TRUE

\* `if engine:` after the factory call; a missing configuration file and an
\* exception from the factory have returned None before it
Stores(built) == built

\* getEngine(kind, name); built says whether the construction (configuration
\* file, factory) yields an engine, and fresh is the engine it yields. The
\* result: the dict and the value returned.
getEngine(e, key, built, fresh) ==
    IF Cached(e, key)
      THEN [engines |-> e, got |-> e[key], constructs |-> FALSE]
      ELSE IF Stores(built)
        THEN [engines |-> [e EXCEPT ![key] = fresh], got |-> fresh, constructs |-> TRUE]
        ELSE [engines |-> e, got |-> 0, constructs |-> TRUE]

\* a call of getEngine; the method has no await, so it runs as one step
GetEngine(key, built) ==
    /\ Len(gets) < MaxGets
    /\ LET r == getEngine(engines, key, built, Len(gets) + 1) IN
       /\ engines' = r.engines
       /\ attempts' = IF r.constructs THEN [attempts EXCEPT ![key] = @ + 1] ELSE attempts
       /\ gets' = Append(gets, [key |-> key, got |-> r.got,
                                failed |-> r.constructs /\ ~built])
    /\ UNCHANGED <<closed, cl>>
    /\ UNCHANGED outsidePool

\* the names cached under the kind with index i
NamesOf(e, i) == {n \in EngineNames : e[<<EngineTypes[i], n>>] /= 0}

\* the next item of `self.engines[engine_type].items()`: dicts iterate in
\* insertion order, which is the order of construction
NextName(e, i, visited) ==
    CHOOSE n \in NamesOf(e, i) \ visited :
        \A m \in NamesOf(e, i) \ visited :
            e[<<EngineTypes[i], n>>] <= e[<<EngineTypes[i], m>>]

\* closeAll from the top of its inner loop to its next await, or to its end.
\* The iterator raises RuntimeError when the dict changed size since the
\* iteration of the kind began; engines without close are passed over.
RECURSIVE RunCloseAll(_, _, _, _)
RunCloseAll(e, i, visited, size) ==
    IF i > Len(EngineTypes)
      THEN [pc |-> "done", kind |-> i, visited |-> {}, size |-> 0,
            awaiting |-> <<>>, raised |-> FALSE]
    ELSE IF Cardinality(NamesOf(e, i)) /= size
      THEN [pc |-> "done", kind |-> i, visited |-> visited, size |-> size,
            awaiting |-> <<>>, raised |-> TRUE]
    ELSE IF NamesOf(e, i) \ visited = {}
      THEN RunCloseAll(e, i + 1, {},
                       IF i < Len(EngineTypes) THEN Cardinality(NamesOf(e, i + 1)) ELSE 0)
    ELSE LET n == NextName(e, i, visited)
             key == <<EngineTypes[i], n>>
         IN  IF HasClose(key)
               THEN [pc |-> "closing", kind |-> i, visited |-> visited \cup {n},
                     size |-> size, awaiting |-> key, raised |-> FALSE]
               ELSE RunCloseAll(e, i, visited \cup {n}, size)

\* the state of closeAll with a record of the engines cached when it began
Snapshot(r, cached0) ==
    [pc |-> r.pc, kind |-> r.kind, visited |-> r.visited, size |-> r.size,
     awaiting |-> r.awaiting, cached0 |-> cached0, raised |-> r.raised]

\* closeAll from its entry to its first await, or to its end
CloseAllCall ==
    /\ cl.pc = "idle"
    /\ LET r == RunCloseAll(engines, 1, {}, Cardinality(NamesOf(engines, 1))) IN
       /\ cl' = Snapshot(r, {k \in Keys : engines[k] /= 0})
       /\ closed' = IF r.pc = "closing" THEN [closed EXCEPT ![r.awaiting] = @ + 1] ELSE closed
    /\ UNCHANGED <<engines, attempts, gets>>
    /\ UNCHANGED outsidePool

\* engine.close() ends, by returning or by raising (the handler logs the
\* exception); closeAll to its next await, or to its end
CloseAllResume(close_raised) ==
    /\ cl.pc = "closing"
    /\ LET r == RunCloseAll(engines, cl.kind, cl.visited, cl.size) IN
       /\ cl' = Snapshot(r, cl.cached0)
       /\ closed' = IF r.pc = "closing" THEN [closed EXCEPT ![r.awaiting] = @ + 1] ELSE closed
    /\ UNCHANGED <<engines, attempts, gets>>
    /\ UNCHANGED outsidePool

-----------------------------------------------------------------------------
(* AudioProcessor: the calls wrapped in backoff.on_exception
   (src/utils/audio_processor.py) *)

\* number of calls made one after another
MaxRetryCalls == 3

\* max_tries of the decorator
MaxTries == 3

\* what the audio processor leaves alone
outsideRetry == <<pipeVars, apiVars, chatVars, audioVars, sweepVars, connVars, poolVars, cacheVars, speechVars,
                  synthVars, agentVars,
                  engVars,
                  runVars,
                  registryVars,
                  transcribeVars,
                  singleVars,
                  socketVars,
                  userConfigVars,
                  hashVars,
                  rtcVars,
                  splitVars>>

WrappedMethods == {"transcribe", "synthesize", "generate_response"}

\* what the provider behind a method can do: return a result, return nothing,
\* raise a caller-fault error, raise a transient error
ProviderOutcomes == {"ok", "empty", "ValueError", "ConnectionError"}

ProviderErrors == {"ValueError", "ConnectionError"}

NoRetryCall == [pc |-> "idle", method |-> None, tries |-> 0]

RetryIdle == rt = NoRetryCall /\ rlog = <<>>

\* the decorator's giveup: lambda e: isinstance(e, ValueError)
Giveup(e) == e = "ValueError"

\* the `except Exception` that closes the body of each wrapped method
BodyCatches(e) == e \in ProviderErrors

\* the exception that leaves the method body when the provider ends with
\* outcome o (None if the body returns)
BodyRaises(o) == IF o \in ProviderErrors /\ ~BodyCatches(o) THEN o ELSE None

\* the value the method body returns
BodyValue(method, o) ==
    IF o = "ok" THEN "result"
    ELSE IF method = "synthesize" THEN "failure dict" ELSE None

\* a wrapped method is called: the decorator runs the body up to the await
\* of the provider
RetryCall(method) ==
    /\ rt.pc = "idle"
    /\ Len(rlog) < MaxRetryCalls
    /\ rt' = [pc |-> "provider_await", method |-> method, tries |-> 1]
    /\ UNCHANGED rlog
    /\ UNCHANGED outsideRetry

\* the provider ends with outcome o; the body ends, and the decorator either
\* runs the body again (the exception is not a giveup and tries are left) or
\* ends the call, raising the exception or returning the body's value
ProviderReturn(o) ==
    /\ rt.pc = "provider_await"
    /\ LET e == BodyRaises(o) IN
       IF e /= None /\ ~Giveup(e) /\ rt.tries < MaxTries
         THEN /\ rt' = [rt EXCEPT !.tries = @ + 1]
              /\ UNCHANGED rlog
         ELSE /\ rt' = NoRetryCall
              /\ rlog' = Append(rlog, [method |-> rt.method, attempts |-> rt.tries,
                                        last |-> o, raised |-> e,
                                        value |-> IF e = None THEN BodyValue(rt.method, o)
                                                  ELSE None])
    /\ UNCHANGED outsideRetry

-----------------------------------------------------------------------------
(* The audio cache (src/utils/audio_utils.py) *)

\* bounds of the model
MaxSaves == 2
MaxReads == 2
MaxHalfTtls == 3

\* CACHE_TTL = 86400 * 7
CACHE_TTL == 86400 * 7

\* what the cache leaves alone, besides the clock
outsideCache == <<pipeVars, chatVars, audioVars, sweepVars, connVars, poolVars, retryVars,
                  speechVars, synthVars, agentVars,
                  engVars,
                  runVars,
                  registryVars,
                  transcribeVars,
                  singleVars,
                  socketVars,
                  userConfigVars,
                  hashVars,
                  rtcVars,
                  splitVars>>

CacheKeys == {"k1", "k2"}

\* audio bytes; "" is the empty bytes object a truncated file holds
Bytes == {"b1", "b2"}

NoFile == [exists |-> FALSE, data |-> "", mtime |-> 0]

NoSave == [valid |-> FALSE, data |-> "", at |-> 0]

NotWriting == [pc |-> "idle", key |-> None, data |-> "", n |-> 0]

NoRead == [n |-> 0, key |-> None, got |-> None]

\* an empty cache directory
CacheEmpty ==
    /\ files = [k \in CacheKeys |-> NoFile]
    /\ wr = NotWriting
    /\ saved = [k \in CacheKeys |-> NoSave]
    /\ rd = NoRead

\* save_to_cache from its entry to the await of f.write: aiofiles.open(path,
\* "wb") creates or truncates the file, or fails and the call returns False
SaveOpen(cache_key, audio_data, opened) ==
    /\ wr.pc = "idle" /\ wr.n < MaxSaves
    /\ IF opened
         THEN /\ files' = [files EXCEPT ![cache_key] =
                               [exists |-> TRUE, data |-> "", mtime |-> now]]
              /\ wr' = [pc |-> "writing", key |-> cache_key, data |-> audio_data,
                        n |-> wr.n + 1]
              /\ saved' = [saved EXCEPT ![cache_key] = NoSave]
         ELSE /\ wr' = [wr EXCEPT !.n = @ + 1]
              /\ UNCHANGED <<files, saved>>
    /\ UNCHANGED <<rd, apiVars>>
    /\ UNCHANGED outsideCache

\* f.write ends and the file is closed; save_to_cache returns True, or False
\* when the write failed
SaveWrite(written) ==
    /\ wr.pc = "writing"
    /\ IF written
         THEN /\ files' = [files EXCEPT ![wr.key] =
                               [exists |-> TRUE, data |-> wr.data, mtime |-> now]]
              /\ saved' = [saved EXCEPT ![wr.key] =
                               [valid |-> TRUE, data |-> wr.data, at |-> now]]
         ELSE UNCHANGED <<files, saved>>
    /\ wr' = [NotWriting EXCEPT !.n = wr.n]
    /\ UNCHANGED <<rd, apiVars>>
    /\ UNCHANGED outsideCache

\* a cache whose entries age from their last use
Stamp_OnRead(file, t) == [file EXCEPT !.mtime = t]

\* the file after its bytes were read: reading leaves the mtime alone
Stamp(file, t) == file

\* time.time() - file_mtime > CACHE_TTL
Expired(file, t) == t - file.mtime > CACHE_TTL

\* get_cached_audio(cache_key) at time t: the file afterwards and the value returned
get_cached_audio(file, t) ==
    IF ~file.exists THEN [file |-> file, got |-> None]
    ELSE IF Expired(file, t) THEN [file |-> NoFile, got |-> None]
    ELSE [file |-> Stamp(file, t), got |-> file.data]

\* a call of get_cached_audio
GetCachedAudio(cache_key) ==
    /\ rd.n < MaxReads
    /\ LET r == get_cached_audio(files[cache_key], now) IN
       /\ files' = [files EXCEPT ![cache_key] = r.file]
       /\ rd' = [n |-> rd.n + 1, key |-> cache_key, got |-> r.got]
    /\ UNCHANGED <<wr, saved, apiVars>>
    /\ UNCHANGED outsideCache

\* half the TTL passes
HalfTtlPasses ==
    /\ now < MaxHalfTtls * (CACHE_TTL \div 2)
    /\ now' = now + CACHE_TTL \div 2
    /\ UNCHANGED <<contexts, pipeline, uuid_count, sent, update_count>>
    /\ UNCHANGED <<cacheVars, outsideCache>>

\* a second passes
SecondPasses ==
    /\ now % (CACHE_TTL \div 2) = 0
    /\ now' = now + 1
    /\ UNCHANGED <<contexts, pipeline, uuid_count, sent, update_count>>
    /\ UNCHANGED <<cacheVars, outsideCache>>

-----------------------------------------------------------------------------
(* MinimaxIntegration.text_to_speech (src/minimax_integration.py) *)

MaxSpeechCalls == 2
MaxTtls == 2

\* what text_to_speech leaves alone, besides the clock
outsideSpeech == <<pipeVars, chatVars, audioVars, sweepVars, connVars, poolVars, retryVars,
                   synthVars, agentVars,
                  engVars,
                  runVars,
                  registryVars,
                  transcribeVars,
                  singleVars,
                  socketVars,
                  userConfigVars,
                  hashVars,
                  rtcVars,
                  splitVars>>

SpeechTexts == {"t1", "t2"}

\* the audio the provider answers with; "" is an audio_data field that decodes
\* to no bytes
ProviderAudio == Bytes \cup {""}

\* what the POST comes to: audio, or a failure (a status other than 200, an
\* error in base_resp, no audio_data field, an exception)
ProviderAnswers == ProviderAudio \cup {"failed"}

NoSpeech == [pc |-> "idle", n |-> 0, text |-> None, use_cache |-> FALSE, soon |-> TRUE,
             read_ok |-> TRUE, last |-> 0]

SpeechIdle == speech = NoSpeech /\ speeches = <<>>

\* the log with one more returned call, the last two kept
Logged(log, r) == IF Len(log) < 2 THEN Append(log, r) ELSE <<log[2], r>>

\* compute_content_hash(text, voice_id, cache_params) with the default voice and
\* parameters: the MD5 of "text:voice:params", one key per text
compute_content_hash(text) == IF text = "t1" THEN "k1" ELSE "k2"

\* a lookup that serves nothing
CacheHit_Never(cached_audio) == FALSE

\* if cached_audio:
CacheHit(cached_audio) == cached_audio /= None /\ cached_audio /= ""

\* save_to_cache(cache_key, audio_data) run to its end at time t: the file
\* afterwards. open(path, "wb") truncates the file; a failed write leaves it so
save_to_cache(file, audio_data, t, opened, written) ==
    IF ~opened THEN file
    ELSE IF ~written THEN [exists |-> TRUE, data |-> "", mtime |-> t]
    ELSE [exists |-> TRUE, data |-> audio_data, mtime |-> t]

\* a returned call: its arguments, the result dict, and what happened on the
\* way: whether it began within the TTL of the return of the call before it,
\* whether the lookup ran without an error, whether the provider was asked,
\* whether save_to_cache returned True
SpeechResult(call, success, audio_data, from_cache, called, save_ok) ==
    [text |-> call.text, use_cache |-> call.use_cache, soon |-> call.soon,
     read_ok |-> call.read_ok,
     success |-> success, audio_data |-> audio_data, from_cache |-> from_cache,
     called |-> called, save_ok |-> save_ok]

\* text_to_speech from its entry to session.post: with use_cache the cache is
\* looked up first and a hit is returned at once; read_ok is FALSE when the
\* lookup of a file that exists raises inside get_cached_audio, which then
\* returns None
TextToSpeechCall(text, use_cache, read_ok) ==
    /\ speech.pc = "idle" /\ speech.n < MaxSpeechCalls
    /\ read_ok \/ (use_cache /\ files[compute_content_hash(text)].exists)
    /\ LET call == [pc |-> "post", n |-> speech.n + 1, text |-> text,
                    use_cache |-> use_cache,
                    soon |-> now - speech.last <= CACHE_TTL,
                    read_ok |-> read_ok, last |-> speech.last]
           cache_key == compute_content_hash(text)
           r == IF read_ok THEN get_cached_audio(files[cache_key], now)
                ELSE [file |-> files[cache_key], got |-> None]
       IN IF use_cache
            THEN /\ files' = [files EXCEPT ![cache_key] = r.file]
                 /\ IF CacheHit(r.got)
                      THEN /\ speeches' = Logged(speeches,
                                  SpeechResult(call, TRUE, r.got, TRUE, FALSE, FALSE))
                           /\ speech' = [NoSpeech EXCEPT !.n = call.n, !.last = now]
                      ELSE /\ speech' = call
                           /\ UNCHANGED speeches
            ELSE /\ speech' = call
                 /\ UNCHANGED <<files, speeches>>
    /\ UNCHANGED <<wr, saved, rd, apiVars>>
    /\ UNCHANGED outsideSpeech

\* a text_to_speech that hands every answer to save_to_cache
Writes_Always(answer, use_cache) == TRUE

\* `if use_cache: await save_to_cache(cache_key, audio_data)`, reached only on
\* the branches that hold audio
Writes(answer, use_cache) == use_cache /\ answer \in ProviderAudio

\* the provider's answer arrives: audio is written through to the cache when
\* use_cache is set, whatever save_to_cache returns, and handed back with
\* from_cache False; a failure is handed back with success False
ProviderAnswer(answer, opened, written) ==
    /\ speech.pc = "post"
    /\ LET cache_key == compute_content_hash(speech.text) IN
       /\ files' = IF Writes(answer, speech.use_cache)
                      THEN [files EXCEPT ![cache_key] =
                               save_to_cache(@, answer, now, opened, written)]
                      ELSE files
       /\ speeches' = IF answer \in ProviderAudio
                         THEN Logged(speeches,
                                 SpeechResult(speech, TRUE, answer, FALSE, TRUE,
                                              speech.use_cache /\ opened /\ written))
                         ELSE Logged(speeches,
                                 SpeechResult(speech, FALSE, None, FALSE, TRUE, FALSE))
    /\ speech' = [NoSpeech EXCEPT !.n = speech.n, !.last = now]
    /\ UNCHANGED <<wr, saved, rd, apiVars>>
    /\ UNCHANGED outsideSpeech

\* the TTL passes
TtlPasses ==
    /\ now < MaxTtls * CACHE_TTL
    /\ now' = now + CACHE_TTL
    /\ UNCHANGED <<contexts, pipeline, uuid_count, sent, update_count>>
    /\ UNCHANGED <<cacheVars, speechVars, outsideSpeech>>

-----------------------------------------------------------------------------
(* ConversationPipeline.tts_only and MiniMaxAPI.run
   (src/pipelines/conversation.py, src/engine/tts/minimaxTTS.py) *)

MaxSynthCalls == 3

\* what tts_only leaves alone
outsideSynth == <<apiVars, chatVars, audioVars, sweepVars, connVars, poolVars, retryVars,
                  cacheVars, speechVars, agentVars,
                  engVars,
                  runVars,
                  registryVars,
                  transcribeVars,
                  singleVars,
                  socketVars,
                  userConfigVars,
                  hashVars,
                  rtcVars,
                  splitVars>>

\* what the POST comes to: audio bytes, a status other than 200, a body with
\* no audio_data field, an exception
TtsReplies == Bytes \cup {"status", "no_audio", "raised"}

NoSynth == [pc |-> "idle", text |-> None]

SynthIdle == synth = NoSynth /\ synths = <<>>

\* AudioMessage(data=audio_data, desc=text, format=MP3, ...)
AudioMessage(data, desc) == [kind |-> "Audio", data |-> data, desc |-> desc]

\* a tts_only call that returned: the text, the value returned, and whether a
\* request was posted to the provider on the way
Synthesized(text, value, posted) == [text |-> text, value |-> value, posted |-> posted]

\* the value run() makes of the provider's reply
run_result(text, reply) == IF reply \in Bytes THEN AudioMessage(reply, text) ELSE NoMsg

\* tts_only(text) up to the POST of MiniMaxAPI.run: None at once without an
\* engine or with an empty text; nothing is looked up before the request
TtsOnlyCall(text) ==
    /\ synth.pc = "idle" /\ Len(synths) < MaxSynthCalls
    /\ IF ~tts_engine \/ text = ""
         THEN /\ synths' = Append(synths, Synthesized(text, NoMsg, FALSE))
              /\ UNCHANGED synth
         ELSE /\ synth' = [pc |-> "post", text |-> text]
              /\ UNCHANGED synths
    /\ UNCHANGED <<pipeVars, outsideSynth>>

\* the provider's reply arrives and run() returns
TtsReply(reply) ==
    /\ synth.pc = "post"
    /\ synths' = Append(synths, Synthesized(synth.text, run_result(synth.text, reply), TRUE))
    /\ synth' = NoSynth
    /\ UNCHANGED <<pipeVars, outsideSynth>>

-----------------------------------------------------------------------------
(* POST /api/agent (src/api/routes.py) *)

MaxAgentQueries == 2

\* what agent_query leaves alone, besides the service
outsideAgent == <<pipeVars, chatVars, audioVars, sweepVars, connVars, poolVars, retryVars,
                  cacheVars, speechVars, synthVars,
                  engVars,
                  runVars,
                  registryVars,
                  transcribeVars,
                  singleVars,
                  socketVars,
                  userConfigVars,
                  hashVars,
                  rtcVars,
                  splitVars>>

Queries == {"hello", "world"}

\* what agent_engine.process returns: None, or a response with a text
AgentResponse(t) == [kind |-> "Agent", text |-> t]
AgentResults == {NoMsg} \cup {AgentResponse(t) : t \in Texts}

\* request.context: absent, or a dict; the stored context has the keys
\* messages, created_at and last_access
NoDict == << >>
NoRequestContext == [given |-> FALSE, dict |-> NoDict]
RequestDict(d) == [given |-> TRUE, dict |-> d]
RequestContexts ==
    {NoRequestContext, RequestDict(NoDict), RequestDict([user |-> "u1"]),
     RequestDict([messages |-> <<Entry("user", "hello")>>, user |-> "u1"]),
     RequestDict([last_access |-> 0])}

NoAgentQuery == [pc |-> "idle", n |-> 0, context_id |-> NoId, query |-> None, status |-> 0,
                 request_context |-> NoRequestContext, merged_context |-> NoDict]

\* `if request.context:` is false for None and for an empty dict
Given(request_context) == request_context.given /\ DOMAIN request_context.dict /= {}

\* {**context, **request.context}
Merged(context, dict) ==
    [key \in DOMAIN context \cup DOMAIN dict |->
        IF key \in DOMAIN dict THEN dict[key] ELSE context[key]]

\* a merge that writes the request's keys into the stored dict
merge_context_InPlace(context, request_context) ==
    LET merged == IF Given(request_context) THEN Merged(context, request_context.dict)
                  ELSE context
    IN  [merged_context |-> merged, context |-> merged]

\* the merge of agent_query: the dict passed on, and the stored dict after it
merge_context(context, request_context) ==
    [merged_context |-> IF Given(request_context) THEN Merged(context, request_context.dict)
                        ELSE context,
     context |-> context]

AgentIdle == aq = NoAgentQuery

\* the dict agent_query stores: {"last_query": ..., "last_response": ...}
AgentEntry(query, text) == [last_query |-> query, last_response |-> text]

\* agent_query from its entry to the await of agent_only: the context is
\* fetched or created under conversation_id or a fresh uuid; without a
\* pipeline or with the agent disabled the request ends with status 500;
\* otherwise the stored context and request.context are merged for the agent
AgentQueryCall(conversation_id, query, request_context) ==
    /\ aq.pc = "idle" /\ aq.n < MaxAgentQueries
    /\ conversation_id = NoId => uuid_count < MaxUuids
    /\ LET context_id == IF conversation_id = NoId THEN Uuid(uuid_count + 1)
                         ELSE conversation_id
           got == get_context(contexts, context_id, now, uuid_count)
           merge == merge_context(got[context_id], request_context)
       IN IF ~pipeline \/ ~self_use_agent \/ ~agent_engine
            THEN /\ contexts' = got
                 /\ aq' = [NoAgentQuery EXCEPT !.n = aq.n + 1, !.status = 500]
            ELSE /\ contexts' = [got EXCEPT ![context_id] = merge.context]
                 /\ aq' = [pc |-> "agent", n |-> aq.n + 1, context_id |-> context_id,
                           query |-> query, status |-> 0,
                           request_context |-> request_context,
                           merged_context |-> merge.merged_context]
    /\ uuid_count' = IF conversation_id = NoId THEN uuid_count + 1 ELSE uuid_count
    /\ UNCHANGED <<pipeline, now, sent, update_count>>
    /\ UNCHANGED outsideAgent

\* agent_only returns: None when the agent returned None or raised, and the
\* request ends with status 500; otherwise the query and the response text are
\* stored with update_context and the request ends with status 200
AgentQueryReturn(response, raised) ==
    /\ aq.pc = "agent"
    /\ LET agent_result == IF raised THEN NoMsg ELSE response IN
       IF agent_result = NoMsg
         THEN /\ aq' = [NoAgentQuery EXCEPT !.n = aq.n, !.status = 500]
              /\ UNCHANGED <<contexts, sent>>
         ELSE /\ contexts' = update_context(contexts, aq.context_id,
                                 AgentEntry(aq.query, agent_result.text), now, uuid_count)
              /\ sent' = IF aq.context_id \in ClientIds
                           THEN [sent EXCEPT ![aq.context_id] =
                                    Append(@, AgentEntry(aq.query, agent_result.text))]
                           ELSE sent
              /\ aq' = [NoAgentQuery EXCEPT !.n = aq.n, !.status = 200]
    /\ UNCHANGED <<pipeline, now, uuid_count, update_count>>
    /\ UNCHANGED outsideAgent

-----------------------------------------------------------------------------
(* BaseEngine.__init__, setup, release and MinimaxAPI.close
   (src/engine/engineBase.py, src/engine/llm/minimaxLLM.py) *)

MaxMissing == 2
MaxTeardowns == 3

\* what an engine object leaves alone
outsideEngine == <<pipeVars, apiVars, chatVars, audioVars, sweepVars, connVars, poolVars,
                   retryVars, cacheVars, speechVars, synthVars, agentVars,
                  runVars,
                  registryVars,
                  transcribeVars,
                  singleVars,
                  socketVars,
                  userConfigVars,
                  hashVars,
                  rtcVars,
                  splitVars>>

\* the subclasses of BaseEngine, by module
EngineClasses == {"asr.DeepgramAPI", "asr.FunASRLocal", "tts.MiniMaxAPI", "tts.EdgeAPI",
                  "tts.DeepgramAPI", "llm.MinimaxAPI", "llm.OpenAILLM"}

\* self.__class__.__name__
ClassName(c) ==
    CASE c = "asr.DeepgramAPI" -> "DeepgramAPI"
      [] c = "asr.FunASRLocal" -> "FunASRLocal"
      [] c = "tts.MiniMaxAPI" -> "MiniMaxAPI"
      [] c = "tts.EdgeAPI" -> "EdgeAPI"
      [] c = "tts.DeepgramAPI" -> "DeepgramAPI"
      [] c = "llm.MinimaxAPI" -> "MinimaxAPI"
      [] c = "llm.OpenAILLM" -> "OpenAILLM"

\* the list each class's checkKeys() returns
checkKeys(c) ==
    CASE c = "asr.DeepgramAPI" -> <<"NAME", "API_KEY">>
      [] c = "asr.FunASRLocal" -> <<"NAME", "MODEL_PATH">>
      [] c = "tts.MiniMaxAPI" -> <<"NAME", "API_KEY", "GROUP_ID">>
      [] c = "tts.EdgeAPI" -> <<"PER", "RATE", "VOL", "PIT">>
      [] c = "tts.DeepgramAPI" -> <<"NAME", "API_KEY", "VOICE", "MODEL">>
      [] c = "llm.MinimaxAPI" -> <<"GROUP_ID", "API_KEY", "MODEL", "LLM_URL">>
      [] c = "llm.OpenAILLM" -> <<"NAME", "API_KEY", "MODEL">>

ConfigKeys == UNION {{checkKeys(c)[i] : i \in 1..Len(checkKeys(c))} : c \in EngineClasses}

\* configurations, as the set of keys they hold: all keys but a few
Configs == {ConfigKeys \ missing : missing \in {s \in SUBSET ConfigKeys : Cardinality(s) <= MaxMissing}}

\* the classes whose setup() creates a provider client or loads a model, and
\* raises RuntimeError when that fails
SetupCanFail(c) == c \in {"asr.DeepgramAPI", "asr.FunASRLocal", "tts.MiniMaxAPI", "tts.DeepgramAPI"}

\* the classes whose setup() creates a provider client
SetupMakesClient(c) == c \in {"asr.DeepgramAPI", "tts.DeepgramAPI"}

NoError == [exc |-> None, cls |-> None, key |-> None]

NoEngine == [cls |-> None, cfg |-> {}, state |-> "none", error |-> NoError,
             setup_runs |-> 0, clients |-> 0, session |-> "unset", sessions |-> 0,
             releases |-> 0, close_calls |-> 0, closes |-> 0, raised |-> FALSE]

EngineIdle == eng = NoEngine

\* for key in self.checkKeys(): if key not in self.cfg: the index of the first
\* key from position i on that the config lacks, 0 if there is none
RECURSIVE FirstMissing(_, _, _)
FirstMissing(keys, cfg, i) ==
    IF i > Len(keys) THEN 0
    ELSE IF keys[i] \notin cfg THEN i
    ELSE FirstMissing(keys, cfg, i + 1)

\* a check that finds every key
MissingIndex_None(keys, cfg) == 0

\* the index of the key the loop of __init__ raises for, 0 if it raises for none
MissingIndex(keys, cfg) == FirstMissing(keys, cfg, 1)

\* BaseEngine.__init__(config) of class c: the object afterwards
init(c, cfg, setup_ok) ==
    LET keys == checkKeys(c)
        i == MissingIndex(keys, cfg)
        new == [NoEngine EXCEPT !.cls = c, !.cfg = cfg]
    IN  IF i /= 0
          THEN [new EXCEPT !.state = "raised",
                           !.error = [exc |-> "KeyError", cls |-> ClassName(c), key |-> keys[i]]]
        ELSE IF SetupCanFail(c) /\ ~setup_ok
          THEN [new EXCEPT !.state = "raised", !.setup_runs = 1,
                           !.error = [exc |-> "RuntimeError", cls |-> ClassName(c), key |-> None]]
        ELSE [new EXCEPT !.state = "ready", !.setup_runs = 1,
                         !.clients = IF SetupMakesClient(c) THEN 1 ELSE 0,
                         !.session = IF c = "llm.MinimaxAPI" THEN "None" ELSE "unset"]

\* an engine of class c is constructed from a config
Construct(c, cfg, setup_ok) ==
    /\ eng.state = "none"
    /\ setup_ok \/ SetupCanFail(c)
    /\ eng' = init(c, cfg, setup_ok)
    /\ UNCHANGED outsideEngine

\* MinimaxAPI.ensure_session, called by run(): a session is created when there
\* is none or the last one is closed
EnsureSession ==
    /\ eng.state = "ready" /\ eng.cls = "llm.MinimaxAPI"
    /\ eng.sessions < MaxTeardowns
    /\ eng.session \in {"None", "closed"}
    /\ eng' = [eng EXCEPT !.session = "open", !.sessions = @ + 1, !.closes = 0]
    /\ UNCHANGED outsideEngine

\* release(), by a caller or by __del__: no class overrides BaseEngine.release
Release ==
    /\ eng.state /= "none"
    /\ eng.releases + eng.close_calls < MaxTeardowns
    /\ eng' = [eng EXCEPT !.releases = @ + 1]
    /\ UNCHANGED outsideEngine

\* a session that is closed again
SessionLive_Always(session) == session \in {"open", "closed"}

\* self.session and not self.session.closed
SessionLive(session) == session = "open"

\* MinimaxAPI.close() on an engine the constructor returned
Close ==
    /\ eng.state = "ready" /\ eng.cls = "llm.MinimaxAPI"
    /\ eng.releases + eng.close_calls < MaxTeardowns
    /\ eng' = IF SessionLive(eng.session)
                THEN [eng EXCEPT !.close_calls = @ + 1, !.session = "closed", !.closes = @ + 1]
                ELSE [eng EXCEPT !.close_calls = @ + 1]
    /\ UNCHANGED outsideEngine

-----------------------------------------------------------------------------
(* DeepgramAPI.run and OpenAILLM.run
   (src/engine/asr/deepgramASR.py, src/engine/llm/openaiLLM.py) *)

MaxRuns == 3

\* what run() leaves alone
outsideRun == <<pipeVars, apiVars, chatVars, audioVars, sweepVars, connVars, poolVars,
                retryVars, cacheVars, speechVars, synthVars, agentVars, engVars,
                  registryVars,
                  transcribeVars,
                  singleVars,
                  socketVars,
                  userConfigVars,
                  hashVars,
                  rtcVars,
                  splitVars>>

\* what the provider call comes to: a text, an empty text (silence, no reply),
\* or a failure: the connection fails, the request times out, the credentials
\* are refused, the body lacks the expected fields
ProviderFailures == {"transport", "timeout", "auth", "malformed"}
RunAnswers == {"text", "empty"} \cup ProviderFailures

RunIdle == runs = <<>>

\* a run() call that ended: the value returned and whether it raised
Ran(engine, input_empty, answer, value, raised) ==
    [engine |-> engine, input_empty |-> input_empty, answer |-> answer,
     value |-> value, raised |-> raised]

\* DeepgramAPI.run: None for empty audio; the transcript when there is one;
\* None for an empty transcript, for a response without channels and, through
\* `except Exception`, for every failure
deepgram_run(input_empty, answer) ==
    IF input_empty THEN NoMsg
    ELSE IF answer = "text" THEN Msg("hello")
    ELSE NoMsg

\* OpenAILLM.run: None for a status other than 200 and, through the except
\* clauses, for every failure; otherwise a TextMessage of the stripped
\* content, empty or not
openai_run(answer) ==
    IF answer = "text" THEN Msg("hello")
    ELSE IF answer = "empty" THEN Msg("")
    ELSE NoMsg

\* a call of DeepgramAPI.run
DeepgramRun(input_empty, answer) ==
    /\ Len(runs) < MaxRuns
    /\ input_empty => answer = "empty"
    /\ runs' = Append(runs, Ran("asr.DeepgramAPI", input_empty, answer,
                                deepgram_run(input_empty, answer), FALSE))
    /\ UNCHANGED outsideRun

\* a call of OpenAILLM.run
OpenAIRun(answer) ==
    /\ Len(runs) < MaxRuns
    /\ runs' = Append(runs, Ran("llm.OpenAILLM", FALSE, answer, openai_run(answer), FALSE))
    /\ UNCHANGED outsideRun

-----------------------------------------------------------------------------
(* Registry.register and the factories' create
   (src/utils/registry.py, src/utils/registry_v2.py, src/engine/*/ *Factory.py) *)

MaxFactoryCalls == 3

\* what the registries and factories leave alone
outsideRegistry == <<pipeVars, apiVars, chatVars, audioVars, sweepVars, connVars, poolVars,
                     retryVars, cacheVars, speechVars, synthVars, agentVars, engVars,
                     runVars,
                  transcribeVars,
                  singleVars,
                  socketVars,
                  userConfigVars,
                  hashVars,
                  rtcVars,
                  splitVars>>

\* ASREngines, LLMEngines and TTSEngines of src/engine/builder.py are
\* utils.registry.Registry dicts; a BaseFactory holds a registry_v2.Registry
BuilderRegistries == {"ASR", "LLM", "TTS"}
Registries == BuilderRegistries \cup {"V2"}

\* classes to register: two of the same __name__ from different modules
Classes == {[mod |-> "asr", cls |-> "DeepgramAPI"], [mod |-> "tts", cls |-> "DeepgramAPI"],
            [mod |-> "tts", cls |-> "EdgeAPI"]}
NoClass == [mod |-> None, cls |-> None]

\* names given to register(), None for the bare decorator
GivenNames == {None, "EdgeAPI"}
RegistryNames == {"DeepgramAPI", "EdgeAPI"}

\* names asked of a factory
ConfigNames == RegistryNames \cup {"openai", "OpenAI", "whisper"}

NoFactoryCall == [n |-> 0, op |-> None, registry |-> None, name |-> None, class |-> NoClass,
                  value |-> None, raised |-> None, listed |-> {}]

RegistryIdle ==
    /\ registries = [r \in Registries |-> [name \in RegistryNames |-> NoClass]]
    /\ fcall = NoFactoryCall

\* module_name or fn.__name__
ModuleName(name, class) == IF name = None THEN class.cls ELSE name

\* Registry.list(): the registered names
List(dict) == {name \in RegistryNames : dict[name] /= NoClass}

\* a registry that takes every registration
Refuses_Never(r, dict, module_name) == FALSE

\* the registration is refused: `assert module_name not in module_dict` of
\* registry.py; registry_v2 logs a warning and goes on
Refuses(r, dict, module_name) == r \in BuilderRegistries /\ module_name \in List(dict)

\* the dict after register(name)(class), when it is not refused
register(dict, module_name, class) == [dict EXCEPT ![module_name] = class]

\* registry.register(name) applied to a class
Register(r, name, class) ==
    /\ fcall.n < MaxFactoryCalls
    /\ LET module_name == ModuleName(name, class) IN
       IF Refuses(r, registries[r], module_name)
         THEN /\ fcall' = [NoFactoryCall EXCEPT !.n = fcall.n + 1, !.op = "register",
                              !.registry = r, !.name = module_name, !.class = class,
                              !.raised = "AssertionError"]
              /\ UNCHANGED registries
         ELSE /\ registries' = [registries EXCEPT ![r] = register(@, module_name, class)]
              /\ fcall' = [NoFactoryCall EXCEPT !.n = fcall.n + 1, !.op = "register",
                              !.registry = r, !.name = module_name, !.class = class]
    /\ UNCHANGED outsideRegistry

\* ASRFactory.create, LLMFactory.create, TTSFactory.create: the class
\* registered under config.NAME is called, and what it raises leaves create;
\* an unknown name raises RuntimeError with the registered names
Create(r, name, ctor_raises) ==
    /\ fcall.n < MaxFactoryCalls
    /\ r \in BuilderRegistries
    /\ ctor_raises /= None => name \in List(registries[r])
    /\ fcall' = IF name \in List(registries[r])
                  THEN [NoFactoryCall EXCEPT !.n = fcall.n + 1, !.op = "create",
                           !.registry = r, !.name = name, !.class = registries[r][name],
                           !.value = IF ctor_raises = None THEN "engine" ELSE None,
                           !.raised = ctor_raises]
                  ELSE [NoFactoryCall EXCEPT !.n = fcall.n + 1, !.op = "create",
                           !.registry = r, !.name = name,
                           !.raised = "RuntimeError", !.listed = List(registries[r])]
    /\ UNCHANGED registries
    /\ UNCHANGED outsideRegistry

\* config.NAME.lower()
Lower(name) == IF name = "OpenAI" THEN "openai" ELSE name

\* AgentFactory.create: None when the agent is disabled or the type is not
\* "openai", and None when the constructor raises
AgentCreate(enabled, name, ctor_raises) ==
    /\ fcall.n < MaxFactoryCalls
    /\ ctor_raises /= None => (enabled /\ Lower(name) = "openai")
    /\ fcall' = [NoFactoryCall EXCEPT !.n = fcall.n + 1, !.op = "create",
                    !.registry = "AGENT", !.name = name,
                    !.value = IF enabled /\ Lower(name) = "openai" /\ ctor_raises = None
                                THEN "engine" ELSE None]
    /\ UNCHANGED registries
    /\ UNCHANGED outsideRegistry

-----------------------------------------------------------------------------
(* AudioProcessor.transcribe (src/utils/audio_processor.py) *)

MaxTranscribes == 3

\* what transcribe leaves alone
outsideTranscribe == <<pipeVars, apiVars, chatVars, audioVars, sweepVars, connVars, poolVars,
                       retryVars, cacheVars, speechVars, synthVars, agentVars, engVars,
                       runVars, registryVars,
                  singleVars,
                  socketVars,
                  userConfigVars,
                  hashVars,
                  rtcVars,
                  splitVars>>

\* the format argument: absent, or a MIME type or name
MimeTypes == {None, "audio/wav", "audio/mp3", "audio/ogg", "audio/webm", "audio/flac", "WAV"}

\* what asr_engine.run gives: None, a TextMessage with or without text, or an exception
AsrAnswers == {None, "", "hello", "raised"}

\* the language argument, None for the processor's default_language
Languages == {None, "en"}
default_language == "zh-CN"

NoTranscribe == [pc |-> "idle", n |-> 0, format |-> None, lang |-> None, audio_format |-> None,
                 asr_runs |-> 0, returned |-> None]

TranscribeIdle == tr = NoTranscribe

\* format.lower()
FormatLower(format) == IF format = "WAV" THEN "wav" ELSE format

\* `"wav" in format.lower()` and the like
Contains(format, name) == FormatLower(format) \in {name, "audio/" \o name}

\* the AudioFormatType transcribe picks: WEBM unless the format names wav,
\* mp3 or ogg
PickFormat(format) ==
    IF format = None THEN "webm"
    ELSE IF Contains(format, "wav") THEN "wav"
    ELSE IF Contains(format, "mp3") THEN "mp3"
    ELSE IF Contains(format, "ogg") THEN "ogg"
    ELSE "webm"

\* transcribe from its entry to the await of asr_engine.run; without an ASR
\* engine it returns None at once
TranscribeCall(format, language, has_engine) ==
    /\ tr.pc = "idle" /\ tr.n < MaxTranscribes
    /\ tr' = IF ~has_engine
               THEN [NoTranscribe EXCEPT !.n = tr.n + 1, !.format = format]
               ELSE [pc |-> "asr", n |-> tr.n + 1, format |-> format,
                     lang |-> IF language = None THEN default_language ELSE language,
                     audio_format |-> PickFormat(format), asr_runs |-> 1, returned |-> None]
    /\ UNCHANGED outsideTranscribe

\* asr_engine.run has answered: the text of a non-empty TextMessage is
\* returned, anything else, an exception too, gives None
TranscribeReturn(answer) ==
    /\ tr.pc = "asr"
    /\ tr' = [tr EXCEPT !.pc = "idle",
                        !.returned = IF answer \in {None, "", "raised"} THEN None ELSE answer]
    /\ UNCHANGED outsideTranscribe

-----------------------------------------------------------------------------
(* asr_only, llm_only, tts_only, agent_only (src/pipelines/conversation.py) *)

MaxStageCalls == 2

\* what the single-stage entry points leave alone, besides the pipeline
outsideSingle == <<apiVars, chatVars, audioVars, sweepVars, connVars, poolVars,
                   retryVars, cacheVars, speechVars, synthVars, agentVars, engVars,
                   runVars, registryVars, transcribeVars,
                  socketVars,
                  userConfigVars,
                  hashVars,
                  rtcVars,
                  splitVars>>

EntryPoints == {"asr_only", "llm_only", "tts_only", "agent_only"}

\* a str argument
Str(t) == [kind |-> "str", text |-> t]

\* arguments: an AudioMessage for asr_only, a str or a TextMessage for the rest
StageInputs(entry) ==
    IF entry = "asr_only" THEN {Audio("hello")} ELSE {Str("hello"), TextMessage("hello")}

\* what an engine's run or process returns
EngineAnswers == {NoMsg, TextMessage(""), TextMessage("hello"), Audio("hello")}

\* what it raises instead, None when it returns
EngineExceptions == {None, "RuntimeError", "KeyError"}

NoStageCall == [pc |-> "idle", n |-> 0, entry |-> None, had_engine |-> FALSE,
                engine_calls |-> <<>>, answer |-> NoMsg, exception |-> None,
                returned |-> NoMsg, raised |-> None]

SingleIdle == single = NoStageCall

\* the engine an entry point uses
EngineOf(entry) ==
    CASE entry = "asr_only" -> "asr"
      [] entry = "llm_only" -> "llm"
      [] entry = "tts_only" -> "tts"
      [] entry = "agent_only" -> "agent"

\* `if not self.<x>_engine`
HasEngine(entry) ==
    CASE entry = "asr_only" -> asr_engine
      [] entry = "llm_only" -> llm_engine
      [] entry = "tts_only" -> tts_engine
      [] entry = "agent_only" -> agent_engine

\* llm_only and tts_only turn a str into TextMessage(data=text_input)
EngineArgument(entry, input) ==
    IF entry \in {"llm_only", "tts_only"} /\ input.kind = "str"
      THEN TextMessage(input.text) ELSE input

\* an entry point that lets every exception through
Caught_Nothing(exception) == FALSE

\* `except Exception`
Caught(exception) == exception /= None

\* an entry point up to the await of its engine: None at once without the engine
StageCall(entry, input) ==
    /\ single.pc = "idle" /\ single.n < MaxStageCalls
    /\ single' = IF ~HasEngine(entry)
                   THEN [NoStageCall EXCEPT !.n = single.n + 1, !.entry = entry]
                   ELSE [NoStageCall EXCEPT !.n = single.n + 1, !.entry = entry,
                            !.pc = "run", !.had_engine = TRUE,
                            !.engine_calls = <<[engine |-> EngineOf(entry),
                                                arg |-> EngineArgument(entry, input)]>>]
    /\ UNCHANGED <<pipeVars, outsideSingle>>

\* the engine returns or raises, and the entry point returns
StageReturn(answer, exception) ==
    /\ single.pc = "run"
    /\ single' = IF exception = None
                   THEN [single EXCEPT !.pc = "idle", !.answer = answer, !.returned = answer]
                   ELSE IF Caught(exception)
                     THEN [single EXCEPT !.pc = "idle", !.exception = exception]
                     ELSE [single EXCEPT !.pc = "idle", !.exception = exception,
                                         !.raised = exception]
    /\ UNCHANGED <<pipeVars, outsideSingle>>

-----------------------------------------------------------------------------
(* websocket_endpoint for WebSockets that share a client_id, handle_ping and
   POST /api/update_config (src/app.py) *)

NumSockets == 2

\* what these handlers leave alone
outsideSockets == <<pipeVars, apiVars, chatVars, audioVars, sweepVars, connVars, poolVars,
                    retryVars, cacheVars, speechVars, synthVars, agentVars, engVars,
                    runVars, registryVars, transcribeVars, singleVars,
                  userConfigVars,
                  hashVars,
                  rtcVars,
                  splitVars>>

SocketIds == 1..NumSockets

\* no WebSocket: the client_id is not a key of active_connections
NoSocket == 0

\* ConnectionManager.__init__: every dict is empty
EmptyManager == [active |-> NoSocket, chain |-> FALSE, processor |-> FALSE, config |-> FALSE,
                 last_ping |-> FALSE, latency |-> FALSE]

NewSocket == [pc |-> "new", state |-> "new", closing |-> NoSocket]

SocketsIdle == manager = EmptyManager /\ sockets = [s \in SocketIds |-> NewSocket]

\* websocket_endpoint up to its try block: manager.connect accepts the
\* WebSocket and stores it, a new chain, processor and config under the id
AcceptSocket(s) ==
    /\ sockets[s].pc = "new"
    /\ sockets' = [sockets EXCEPT ![s] = [pc |-> "serving", state |-> "open",
                                         closing |-> NoSocket]]
    /\ manager' = [manager EXCEPT !.active = s, !.chain = TRUE, !.processor = TRUE,
                                  !.config = TRUE]
    /\ UNCHANGED outsideSockets

\* manager.handle_ping, called by the handler of s for a ping message
HandlePing(s) ==
    /\ sockets[s].pc = "serving"
    /\ manager' = [manager EXCEPT !.last_ping = TRUE, !.latency = TRUE]
    /\ UNCHANGED sockets
    /\ UNCHANGED outsideSockets

\* POST /api/update_config with this connection_id
UpdateConfig ==
    /\ manager' = [manager EXCEPT !.config = TRUE]
    /\ UNCHANGED sockets
    /\ UNCHANGED outsideSockets

\* the handler of s leaves its loop for the finally block: the peer closed
\* the WebSocket, or an error ended the loop with the WebSocket open
HandlerEnds(s, peer_closed) ==
    /\ sockets[s].pc = "serving"
    /\ sockets' = [sockets EXCEPT ![s].pc = "cleanup",
                                  ![s].state = IF peer_closed THEN "closed" ELSE @]
    /\ UNCHANGED manager
    /\ UNCHANGED outsideSockets

\* manager.disconnect(connection_id) in the finally block of s, up to the
\* await of websocket.close(): nothing without a record; otherwise processor,
\* chain and config go and the WebSocket on record is closed
DisconnectBegin(s) ==
    /\ sockets[s].pc = "cleanup"
    /\ IF manager.active = NoSocket
         THEN /\ sockets' = [sockets EXCEPT ![s].pc = "done"]
              /\ UNCHANGED manager
         ELSE /\ manager' = [manager EXCEPT !.processor = FALSE, !.chain = FALSE,
                                           !.config = FALSE]
              /\ sockets' = [sockets EXCEPT ![s].pc = "closing",
                                            ![s].closing = manager.active,
                                            ![manager.active].state = "closed"]
    /\ UNCHANGED outsideSockets

\* disconnect after websocket.close(): the record is deleted
DisconnectEnd(s) ==
    /\ sockets[s].pc = "closing"
    /\ manager' = [manager EXCEPT !.active = NoSocket]
    /\ sockets' = [sockets EXCEPT ![s].pc = "done"]
    /\ UNCHANGED outsideSockets

-----------------------------------------------------------------------------
(* The provider settings of a connection: POST /api/update_config and the
   WebSocket config message (src/app.py) *)

\* what the provider settings leave alone
outsideUserConfig == <<pipeVars, apiVars, chatVars, audioVars, sweepVars, connVars, poolVars,
                       retryVars, cacheVars, speechVars, synthVars, agentVars, engVars,
                       runVars, registryVars, transcribeVars, singleVars, socketVars,
                  hashVars,
                  rtcVars,
                  splitVars>>

Stages == {"llm", "stt", "tts"}

\* API_PROVIDERS
API_PROVIDERS == [llm |-> {"google", "minimax"}, stt |-> {"deepgram", "minimax"},
                  tts |-> {"google", "minimax"}]

\* DEFAULT_PROVIDERS
DEFAULT_PROVIDERS == [llm |-> "google", stt |-> "deepgram", tts |-> "google"]

\* a stage that is not a key of a providers dict
Absent == "absent"

\* provider names a client can send
ProviderNames == {"google", "minimax", "deepgram", "openai"}

\* the providers dicts a client can send: per stage a name or no key
ProvidersData == [Stages -> ProviderNames \cup {Absent}]

NoUserConfig == [exists |-> FALSE, providers |-> [stage \in Stages |-> Absent]]

UserConfigIdle == ucfg = NoUserConfig

\* the config connect() and update_config create
DefaultUserConfig == [exists |-> TRUE, providers |-> DEFAULT_PROVIDERS]

\* manager.connect stores the default config
ConfigConnect ==
    /\ ucfg' = DefaultUserConfig
    /\ UNCHANGED outsideUserConfig

\* `if "llm" in providers_data and providers_data["llm"] in API_PROVIDERS["llm"]`
Accepted(stage, providers_data) ==
    providers_data[stage] /= Absent /\ providers_data[stage] \in API_PROVIDERS[stage]

\* POST /api/update_config with a providers dict: the config is created when
\* missing, and each stage named with an allowed provider is set
HttpUpdateConfig(providers_data) ==
    /\ LET config == IF ucfg.exists THEN ucfg ELSE DefaultUserConfig IN
       ucfg' = [config EXCEPT !.providers =
                   [stage \in Stages |-> IF Accepted(stage, providers_data)
                                           THEN providers_data[stage]
                                           ELSE config.providers[stage]]]
    /\ UNCHANGED outsideUserConfig

\* a WebSocket config message: update_user_config does
\* user_configs[id].update(config), which puts the message's providers dict in
\* place of the stored one
WsConfigMessage(has_providers, providers_data) ==
    /\ ucfg' = IF ucfg.exists /\ has_providers
                 THEN [ucfg EXCEPT !.providers = providers_data]
                 ELSE ucfg
    /\ UNCHANGED outsideUserConfig

\* manager.disconnect deletes the config
ConfigDisconnect ==
    /\ ucfg' = NoUserConfig
    /\ UNCHANGED outsideUserConfig

-----------------------------------------------------------------------------
(* compute_content_hash as text_to_speech calls it (src/utils/audio_utils.py) *)

\* what compute_content_hash leaves alone
outsideHash == <<pipeVars, apiVars, chatVars, audioVars, sweepVars, connVars, poolVars,
                 retryVars, cacheVars, speechVars, synthVars, agentVars, engVars,
                 runVars, registryVars, transcribeVars, singleVars, socketVars,
                 userConfigVars,
                  rtcVars,
                  splitVars>>

\* texts and voice ids: strings that may hold the separator
HashStrings == {"", "a", ":"}

\* extra_params: dicts in insertion order, as sequences of items
ParamKeys == {"speed", "style"}
ParamValues == {"1", "2"}
Item(key, value) == [key |-> key, value |-> value]
ExtraParams ==
    {<<>>}
    \cup {<<Item(k, v)>> : k \in ParamKeys, v \in ParamValues}
    \cup {<<Item(ks[1], v1), Item(ks[2], v2)>> :
             ks \in {<<"speed", "style">>, <<"style", "speed">>},
             v1 \in ParamValues, v2 \in ParamValues}

\* the items of a dict in the order of sorted(extra_params.keys())
SortedItems(extra_params) ==
    SelectSeq(extra_params, LAMBDA item : item.key = "speed")
      \o SelectSeq(extra_params, LAMBDA item : item.key = "style")

\* ":key=value" for each item in turn
RECURSIVE ItemsText(_)
ItemsText(items) ==
    IF items = <<>> THEN ""
    ELSE ":" \o Head(items).key \o "=" \o Head(items).value \o ItemsText(Tail(items))

\* hash_content: f"{text}:{voice_id}" and the sorted items
HashContent(text, voice_id, extra_params) ==
    text \o ":" \o voice_id \o ItemsText(SortedItems(extra_params))

\* hashlib.md5(...).hexdigest(): one digest per string
Md5(content) == <<"md5", content>>

\* compute_content_hash(text, voice_id, extra_params)
content_hash(text, voice_id, extra_params) == Md5(HashContent(text, voice_id, extra_params))

NoHashed == [done |-> FALSE, text |-> "", voice_id |-> "", extra_params |-> <<>>,
             key |-> Md5("")]

HashIdle == hashed = [first |-> NoHashed, second |-> NoHashed]

\* one request's key is computed: the first, then the second
ComputeContentHash(text, voice_id, extra_params) ==
    /\ ~hashed.second.done
    /\ LET entry == [done |-> TRUE, text |-> text, voice_id |-> voice_id,
                     extra_params |-> extra_params,
                     key |-> content_hash(text, voice_id, extra_params)]
       IN hashed' = IF hashed.first.done THEN [hashed EXCEPT !.second = entry]
                    ELSE [hashed EXCEPT !.first = entry]
    /\ UNCHANGED outsideHash

-----------------------------------------------------------------------------
(* WebRTCHandler.create_connection, close_connection, update_language and the
   WebSocket config message (src/webrtc_integration.py, src/app.py) *)

\* what the handler leaves alone
outsideRtc == <<pipeVars, apiVars, chatVars, audioVars, sweepVars, connVars, poolVars,
                retryVars, cacheVars, speechVars, synthVars, agentVars, engVars,
                runVars, registryVars, transcribeVars, singleVars, socketVars,
                userConfigVars, hashVars,
                  splitVars>>

\* DEFAULT_LANGUAGE of src/app.py
DEFAULT_LANGUAGE == "zh-CN"

LanguageCodes == {"zh-CN", "en-US", "ja"}

\* message callbacks
Callbacks == {"cb1", "cb2"}

\* what setup_live_transcription does: a session, None, or an exception
SetupOutcomes == {"session", "None", "raises"}

\* no call yet
NoRtcCall == [op |-> None, language |-> None, setup |-> None, had |-> FALSE]

\* the id is not a key of self.connections
NoRtcConnection == [present |-> FALSE, live_transcription |-> FALSE, language |-> None,
                    message_callback |-> None, sessions |-> 0, last |-> NoRtcCall]

RtcIdle == rtc = NoRtcConnection

RtcCall(op, language, setup, had) ==
    [op |-> op, language |-> language, setup |-> setup, had |-> had]

\* create_connection with a Deepgram client: an id that has an entry keeps it;
\* otherwise setup_live_transcription runs and its result is stored, unless it
\* raised. The entry afterwards.
create_connection(c, message_callback, language, setup) ==
    IF c.present THEN c
    ELSE IF setup = "raises" THEN c
    ELSE [c EXCEPT !.present = TRUE, !.live_transcription = (setup = "session"),
                   !.language = language, !.message_callback = message_callback,
                   !.sessions = IF setup = "session" THEN c.sessions + 1 ELSE c.sessions]

\* close_connection: nothing for an unknown id; otherwise the session is
\* finished, an exception from it is logged, and the entry is deleted
close_connection(c, finish_raises) ==
    IF ~c.present THEN c
    ELSE [c EXCEPT !.present = FALSE, !.live_transcription = FALSE, !.language = None,
                   !.message_callback = None,
                   !.sessions = IF c.live_transcription THEN c.sessions - 1 ELSE c.sessions]

\* update_language: False for an unknown id; otherwise the entry is closed and
\* created again with the new language and the callback it had
update_language(c, language, setup, finish_raises) ==
    IF ~c.present THEN c
    ELSE create_connection(close_connection(c, finish_raises), c.message_callback,
                           language, setup)

\* a call of create_connection
CreateConnection(message_callback, language, setup) ==
    /\ rtc' = [create_connection(rtc, message_callback, language, setup)
                 EXCEPT !.last = RtcCall("create", language, setup, rtc.present)]
    /\ UNCHANGED outsideRtc

\* a call of close_connection
CloseConnection(finish_raises) ==
    /\ rtc' = [close_connection(rtc, finish_raises)
                 EXCEPT !.last = RtcCall("close", None, None, rtc.present)]
    /\ UNCHANGED outsideRtc

\* a call of update_language
UpdateLanguage(language, setup, finish_raises) ==
    /\ rtc' = [update_language(rtc, language, setup, finish_raises)
                 EXCEPT !.last = RtcCall("update_language", language, setup, rtc.present)]
    /\ UNCHANGED outsideRtc

\* config.get("language", DEFAULT_LANGUAGE); None stands for a message
\* without the key
ConfigLanguage(language) == IF language = None THEN DEFAULT_LANGUAGE ELSE language

\* a WebSocket config message with or without a language key, Deepgram being
\* available: when the id has a session, update_language is called
ConfigMessage(language, setup, finish_raises) ==
    /\ rtc' = [(IF rtc.present
                  THEN update_language(rtc, ConfigLanguage(language), setup, finish_raises)
                  ELSE rtc)
                 EXCEPT !.last = RtcCall("config", language, setup, rtc.present)]
    /\ UNCHANGED outsideRtc

-----------------------------------------------------------------------------
(* split_text_into_sentences (src/utils/audio_utils.py) *)

MaxTextLen == 8
MaxChars == 7

\* what split_text_into_sentences leaves alone
outsideSplit == <<pipeVars, apiVars, chatVars, audioVars, sweepVars, connVars, poolVars,
                  retryVars, cacheVars, speechVars, synthVars, agentVars, engVars,
                  runVars, registryVars, transcribeVars, singleVars, socketVars,
                  userConfigVars, hashVars, rtcVars>>

\* characters: a letter, a space, and one of the delimiters
Letters == {"a", " ", "."}

\* delimiters = ['。', '！', '？', '；', '.', '!', '?', ';', '\n']
Delimiters == {"."}

\* texts: sequences of characters
SplitTexts == UNION {[1..n -> Letters] : n \in 0..MaxTextLen}

SplitIdle == split = [done |-> FALSE, text |-> <<>>, max_chars |-> 1, chunks |-> <<>>]

\* any(current.endswith(d) for d in delimiters)
EndsWithDelimiter(current) == current /= <<>> /\ current[Len(current)] \in Delimiters

\* current.rstrip()
RECURSIVE Rstrip(_)
Rstrip(current) ==
    IF current /= <<>> /\ current[Len(current)] = " "
      THEN Rstrip(SubSeq(current, 1, Len(current) - 1))
      ELSE current

\* s.rfind(' '): the index, from 0, of the last space, or -1
Rfind(s) ==
    LET at == {i \in 1..Len(s) : s[i] = " "} IN
    IF at = {} THEN -1 ELSE (CHOOSE i \in at : \A j \in at : j <= i) - 1

\* last_space > max_chars * 0.7
InLastPart(last_space, max_chars) == 10 * last_space > 7 * max_chars

\* a break that loses the character after the space as well
Remainder_Short(current, last_space) == SubSeq(current, last_space + 3, Len(current))

\* current[last_space+1:]
Remainder(current, last_space) == SubSeq(current, last_space + 2, Len(current))

\* the body of the loop for one character: result and current afterwards
ScanChar(done_chunks, current0, char, max_chars) ==
    LET current == Append(current0, char)
        last_space == Rfind(Rstrip(current))
    IN  IF EndsWithDelimiter(current)
          THEN [result |-> Append(done_chunks, current), current |-> <<>>]
        ELSE IF Len(current) >= max_chars
          THEN IF " " \in {current[i] : i \in 1..Len(current)}
                    /\ InLastPart(last_space, max_chars)
                 THEN [result |-> Append(done_chunks, SubSeq(current, 1, last_space)),
                       current |-> Remainder(current, last_space)]
                 ELSE [result |-> Append(done_chunks, current), current |-> <<>>]
        ELSE [result |-> done_chunks, current |-> current]

\* the loop over text from its character i on
RECURSIVE Scan(_, _, _, _, _)
Scan(text, i, done_chunks, current, max_chars) ==
    IF i > Len(text) THEN [result |-> done_chunks, current |-> current]
    ELSE LET s == ScanChar(done_chunks, current, text[i], max_chars)
         IN  Scan(text, i + 1, s.result, s.current, max_chars)

\* split_text_into_sentences(text, max_chars)
split_text_into_sentences(text, max_chars) ==
    LET s == Scan(text, 1, <<>>, <<>>, max_chars) IN
    IF s.current /= <<>> THEN Append(s.result, s.current) ELSE s.result

\* a call of split_text_into_sentences, with any text and any max_chars >= 1
SplitCall ==
    /\ ~split.done
    /\ \E text \in SplitTexts, max_chars \in 1..MaxChars :
         split' = [done |-> TRUE, text |-> text, max_chars |-> max_chars,
                   chunks |-> split_text_into_sentences(text, max_chars)]
    /\ UNCHANGED outsideSplit

-----------------------------------------------------------------------------
(* Specifications *)

\* the components outside the REST service at rest
ExtIdle == SweepIdle /\ ConnIdle /\ PoolInit /\ RetryIdle /\ CacheEmpty /\ SpeechIdle
           /\ SynthIdle /\ AgentIdle
           /\ EngineIdle
           /\ RunIdle
           /\ RegistryIdle
           /\ TranscribeIdle
           /\ SingleIdle
           /\ SocketsIdle
           /\ UserConfigIdle
           /\ HashIdle
           /\ RtcIdle
           /\ SplitIdle

(* SpecPipe: one process() call with any arguments on any pipeline *)

InitPipe == PipelineInit /\ ProcessIdle /\ ApiServiceInit /\ pipeline = TRUE /\ ExtIdle
            /\ TextChatIdle /\ AudioChatIdle

\* process() called by a caller of its own
DirectCall(sa, ti, sl, ua, st) == ProcessCall(sa, ti, sl, ua, st) /\ UNCHANGED outsidePipeline

NextPipe ==
    \/ \E sa \in BOOLEAN, ti \in Texts \cup {None}, sl \in BOOLEAN,
          ua \in {None, "True", "False"}, st \in BOOLEAN :
            DirectCall(sa, ti, sl, ua, st)
    \/ ProcessStep

SpecPipe == InitPipe /\ [][NextPipe]_vars

(* SpecCtx: any sequence of get_context and update_context calls *)

InitCtx == PipelineInit /\ ProcessIdle /\ ApiServiceInit /\ pipeline = TRUE /\ ExtIdle
           /\ asr_engine /\ llm_engine /\ tts_engine /\ agent_engine
           /\ TextChatIdle /\ AudioChatIdle

NextCtx ==
    \/ \E id \in ClientIds \cup {NoId} : GetContext(id)
    \/ \E id \in ClientIds \cup {NoId}, m \in Entries : UpdateContext(id, m)
    \/ Tick

SpecCtx == InitCtx /\ [][NextCtx]_vars

(* SpecChat: concurrent text_chat requests *)

InitChat ==
    /\ PipelineInit /\ asr_engine /\ agent_engine
    /\ ProcessIdle /\ ApiServiceBusyInit /\ TextChatIdle /\ AudioChatIdle /\ ExtIdle

NextChat ==
    \/ \E r \in Requests, text \in RequestTexts, cid \in {NoId, ReturningClient},
          skip \in BOOLEAN :
            TextChatCall(r, text, cid, skip)
    \/ \E r \in Requests, out \in LlmRunOutcomes :
            TextChatLlmReturn(r, out)
    \/ \E r \in Requests, out \in TtsRunOutcomes :
            TextChatTtsReturn(r, out)

SpecChat == InitChat /\ [][NextChat]_vars

(* SpecAudio: one audio_chat request *)

InitAudio ==
    /\ PipelineInit /\ ProcessIdle /\ ApiServiceBusyInit /\ TextChatIdle /\ AudioChatIdle
    /\ ExtIdle

NextAudio ==
    \/ \E audio_data \in {"not base64", "", "UklGRg=="}, audio_format \in {"wav", "flac"},
          cid \in {NoId, ReturningClient}, sa, sl, st \in BOOLEAN :
            AudioChatCall(audio_data, audio_format, cid, sa, sl, st)
    \/ ProcessStep
    \/ AudioChatReturn

SpecAudio == InitAudio /\ [][NextAudio]_vars

(* SpecSweep: get_context, update_context and clear_old_contexts as time passes *)

InitSweep == InitCtx

NextSweep ==
    \/ \E id \in ClientIds : GetContext(id)
    \/ \E id \in ClientIds : UpdateContext(id, Entry("user", "hello"))
    \/ HalfHourPasses
    \/ \E max_age_hours \in 0..1 : ClearOldContexts(max_age_hours)

SpecSweep == InitSweep /\ [][NextSweep]_vars

(* SpecConn: one WebSocket connection, its tasks and its disconnects *)

InitConn == InitCtx

NextConn ==
    \/ Connect
    \/ \E llm, tts \in Providers : UpdateUserConfig(llm, tts)
    \/ \E d \in Disconnects : DisconnectCall(d)
    \/ \E d \in Disconnects, close_raised \in BOOLEAN : DisconnectClose(d, close_raised)
    \/ CreateTask
    \/ TaskStart
    \/ TaskLlm
    \/ \E raised \in BOOLEAN : TaskLlmReturn(raised)
    \/ \E success \in BOOLEAN : TaskMinimaxTtsReturn(success)
    \/ TaskTtsReturn

SpecConn == InitConn /\ [][NextConn]_vars

(* SpecPool: getEngine calls and a closeAll *)

InitPool == InitCtx

NextPool ==
    \/ \E key \in Keys, built \in BOOLEAN : GetEngine(key, built)
    \/ CloseAllCall
    \/ \E close_raised \in BOOLEAN : CloseAllResume(close_raised)

SpecPool == InitPool /\ [][NextPool]_vars

(* SpecRetry: calls of the retry-wrapped methods, one after another *)

InitRetry == InitCtx

NextRetry ==
    \/ \E method \in WrappedMethods : RetryCall(method)
    \/ \E o \in ProviderOutcomes : ProviderReturn(o)

SpecRetry == InitRetry /\ [][NextRetry]_vars

(* SpecCache: saves and reads of the audio cache as time passes *)

InitCache == InitCtx

NextCache ==
    \/ \E k \in CacheKeys, b \in Bytes, opened \in BOOLEAN : SaveOpen(k, b, opened)
    \/ \E written \in BOOLEAN : SaveWrite(written)
    \/ \E k \in CacheKeys : GetCachedAudio(k)
    \/ HalfTtlPasses
    \/ SecondPasses

SpecCache == InitCache /\ [][NextCache]_vars

(* SpecSpeech: text_to_speech calls, one after another, as time passes *)

InitSpeech == InitCtx

NextSpeech ==
    \/ \E text \in SpeechTexts, use_cache \in BOOLEAN, read_ok \in BOOLEAN :
          TextToSpeechCall(text, use_cache, read_ok)
    \/ \E answer \in ProviderAnswers, opened \in BOOLEAN, written \in BOOLEAN :
          ProviderAnswer(answer, opened, written)
    \/ TtlPasses

SpecSpeech == InitSpeech /\ [][NextSpeech]_vars

(* SpecSynth: tts_only calls, one after another, on any pipeline *)

InitSynth == InitPipe

NextSynth ==
    \/ \E text \in Texts : TtsOnlyCall(text)
    \/ \E reply \in TtsReplies : TtsReply(reply)

SpecSynth == InitSynth /\ [][NextSynth]_vars

(* SpecAgent: agent_query requests, one after another, among the turns the
   chat handlers store *)

InitAgent == PipelineInit /\ ProcessIdle /\ ApiServiceInit /\ pipeline = TRUE /\ ExtIdle
             /\ asr_engine /\ llm_engine /\ tts_engine
             /\ TextChatIdle /\ AudioChatIdle

NextAgent ==
    \/ \E id \in ClientIds \cup {NoId}, query \in Queries, request_context \in RequestContexts :
          AgentQueryCall(id, query, request_context)
    \/ \E response \in AgentResults, raised \in BOOLEAN : AgentQueryReturn(response, raised)
    \/ \E id \in ClientIds, m \in Entries : UpdateContext(id, m)

SpecAgent == InitAgent /\ [][NextAgent]_vars

(* SpecMerge: agent_query with and without a caller's context, one query text *)

NextMerge ==
    \/ \E id \in ClientIds \cup {NoId}, request_context \in RequestContexts :
          AgentQueryCall(id, "hello", request_context)
    \/ \E raised \in BOOLEAN : AgentQueryReturn(AgentResponse("world"), raised)
    \/ \E m \in Entries : UpdateContext([kind |-> "client", n |-> 1], m)

SpecMerge == InitAgent /\ [][NextMerge]_vars

(* SpecEngine: engines constructed from any configuration, used and torn down *)

InitEngine == InitCtx

NextEngine ==
    \/ \E c \in EngineClasses, cfg \in Configs, setup_ok \in BOOLEAN : Construct(c, cfg, setup_ok)
    \/ EnsureSession
    \/ Release
    \/ Close

SpecEngine == InitEngine /\ [][NextEngine]_vars

(* SpecRun: run() calls of the Deepgram ASR and OpenAI LLM engines *)

InitRun == InitCtx

NextRun ==
    \/ \E input_empty \in BOOLEAN, answer \in RunAnswers : DeepgramRun(input_empty, answer)
    \/ \E answer \in RunAnswers : OpenAIRun(answer)

SpecRun == InitRun /\ [][NextRun]_vars

(* SpecRegistry: registrations and factory calls *)

InitRegistry == InitCtx

NextRegistry ==
    \/ \E r \in Registries, name \in GivenNames, class \in Classes : Register(r, name, class)
    \/ \E r \in BuilderRegistries, name \in ConfigNames, e \in {None, "KeyError", "RuntimeError"} :
          Create(r, name, e)
    \/ \E enabled \in BOOLEAN, name \in ConfigNames, e \in {None, "KeyError", "RuntimeError"} :
          AgentCreate(enabled, name, e)

SpecRegistry == InitRegistry /\ [][NextRegistry]_vars

(* SpecTranscribe: transcribe calls with any format argument *)

InitTranscribe == InitCtx

NextTranscribe ==
    \/ \E format \in MimeTypes, language \in Languages, has_engine \in BOOLEAN :
          TranscribeCall(format, language, has_engine)
    \/ \E answer \in AsrAnswers : TranscribeReturn(answer)

SpecTranscribe == InitTranscribe /\ [][NextTranscribe]_vars

(* SpecSingle: single-stage calls on a pipeline with any set of engines *)

InitSingle == InitPipe

NextSingle ==
    \/ \E entry \in EntryPoints : \E input \in StageInputs(entry) : StageCall(entry, input)
    \/ \E answer \in EngineAnswers, exception \in EngineExceptions : StageReturn(answer, exception)

SpecSingle == InitSingle /\ [][NextSingle]_vars

(* SpecSockets: WebSockets opened under one client_id, pings and config updates *)

InitSockets == InitCtx

NextSockets ==
    \/ \E s \in SocketIds : AcceptSocket(s)
    \/ \E s \in SocketIds : HandlePing(s)
    \/ UpdateConfig
    \/ \E s \in SocketIds, peer_closed \in BOOLEAN : HandlerEnds(s, peer_closed)
    \/ \E s \in SocketIds : DisconnectBegin(s)
    \/ \E s \in SocketIds : DisconnectEnd(s)

SpecSockets == InitSockets /\ [][NextSockets]_vars

(* SpecUserConfig: a connection's provider settings under both update paths *)

InitUserConfig == InitCtx

NextUserConfig ==
    \/ ConfigConnect
    \/ \E providers_data \in ProvidersData : HttpUpdateConfig(providers_data)
    \/ \E has_providers \in BOOLEAN, providers_data \in ProvidersData :
          WsConfigMessage(has_providers, providers_data)
    \/ ConfigDisconnect

SpecUserConfig == InitUserConfig /\ [][NextUserConfig]_vars

(* SpecHash: the cache keys of two requests *)

InitHash == InitCtx

NextHash ==
    \E text \in HashStrings, voice_id \in HashStrings, extra_params \in ExtraParams :
        ComputeContentHash(text, voice_id, extra_params)

SpecHash == InitHash /\ [][NextHash]_vars

(* SpecRtc: calls on the WebRTCHandler for one connection id *)

InitRtc == InitCtx

NextRtc ==
    \/ \E cb \in Callbacks, language \in LanguageCodes, setup \in SetupOutcomes :
          CreateConnection(cb, language, setup)
    \/ \E finish_raises \in BOOLEAN : CloseConnection(finish_raises)
    \/ \E language \in LanguageCodes, setup \in SetupOutcomes, finish_raises \in BOOLEAN :
          UpdateLanguage(language, setup, finish_raises)
    \/ \E language \in LanguageCodes \cup {None}, setup \in SetupOutcomes,
          finish_raises \in BOOLEAN :
          ConfigMessage(language, setup, finish_raises)

SpecRtc == InitRtc /\ [][NextRtc]_vars

(* SpecSplit: split_text_into_sentences on any text and max_chars *)

InitSplit == InitCtx

NextSplit == SplitCall

SpecSplit == InitSplit /\ [][NextSplit]_vars

-----------------------------------------------------------------------------
(* Properties of process() *)

CallsOf(E) == {i \in DOMAIN calls : calls[i].engine \in E}

Ended(i) == calls[i].ret /= Pending

\* call i returned an object carrying a non-empty text
ReturnedText(i) ==
    /\ Ended(i) /\ ~calls[i].ret.raised
    /\ calls[i].ret.value.kind = "Text" /\ Truthy(calls[i].ret.value.text)

\* call i returned None or an object carrying the empty text
ReturnedEmpty(i) ==
    /\ Ended(i) /\ ~calls[i].ret.raised
    /\ \/ calls[i].ret.value.kind = "None"
       \/ calls[i].ret.value.kind = "Text" /\ calls[i].ret.value.text = ""

Field(engine) ==
    CASE engine = "asr" -> "asr_result"
      [] engine = "llm" -> "llm_result"
      [] engine = "agent" -> "agent_result"
      [] engine = "tts" -> "tts_result"

Rank(engine) ==
    CASE engine = "asr" -> 1
      [] engine \in {"llm", "agent"} -> 2
      [] engine = "tts" -> 3

\* the ASR stage was skipped or produced a text: the LLM/Agent stage is reached
LlmStageReached ==
    \/ skip_asr \/ Truthy(text_input)
    \/ \E i \in CallsOf({"asr"}) : ReturnedText(i)

\* the LLM/Agent stage was skipped or produced a reply: the TTS stage is reached
TtsStageReached ==
    /\ LlmStageReached
    /\ skip_llm \/ \E i \in CallsOf({"llm", "agent"}) : ReturnedText(i)

\* a stage the invocation reached and did not skip has no engine to run
ReachedStageLacksEngine ==
    \/ ~(skip_asr \/ Truthy(text_input)) /\ ~asr_engine
    \/ LlmStageReached /\ ~skip_llm /\ ~llm_engine /\ ~(use_agent_mode /\ agent_engine)
    \/ TtsStageReached /\ ~skip_tts /\ ~tts_engine

\* C1: process() never raises to its caller; when an engine call raised or a
\* stage that was reached lacks its engine, it returns with error set; and every
\* value an engine returned earlier in the invocation is still in the result.
C1_ProcessNeverRaises ==
    /\ pc /= "raised"
    /\ (\E i \in DOMAIN calls : calls[i].ret.raised)
          => pc = "returned" /\ result.error /= None
    /\ exc /= None => pc = "returned" /\ result.error /= None
    /\ pc = "returned" /\ ReachedStageLacksEngine => result.error /= None
    /\ \A i \in DOMAIN calls :
          Ended(i) /\ ~calls[i].ret.raised
             => result[Field(calls[i].engine)] = calls[i].ret.value

\* C1 witness: TTS raised after ASR and LLM had returned; the call returned
\* with the error and both earlier results
C1_Witness ==
    /\ pc = "returned" /\ result.error = "pipeline failed: tts engine error"
    /\ \E i \in CallsOf({"tts"}) : calls[i].ret.raised
    /\ result.asr_result = Msg("hello") /\ result.llm_result = Msg("world")

\* C2 (as claimed): the LLM or Agent engine is invoked only with an input text
\* that exists (a non-empty text_input or a non-empty ASR result obtained
\* before), and engines are invoked in the order ASR, LLM/Agent, TTS.
C2_LlmOnlyAfterInputText ==
    /\ \A i \in CallsOf({"llm", "agent"}) :
          /\ Truthy(calls[i].arg)
          /\ \/ Truthy(text_input)
             \/ \E j \in CallsOf({"asr"}) : j < i /\ ReturnedText(j)
    /\ \A i, j \in DOMAIN calls :
          i < j => Rank(calls[i].engine) < Rank(calls[j].engine)

\* C3: an ASR call that returns None or an empty text ends the invocation with
\* no error, no LLM/Agent/TTS result and no further engine call; an empty
\* LLM/Agent reply ends it with no error and without TTS.
C3_EmptyIsNotError ==
    /\ \A i \in CallsOf({"asr"}) :
          ReturnedEmpty(i) =>
             /\ pc = "returned" /\ result.error = None
             /\ result.llm_result = NoMsg /\ result.agent_result = NoMsg
             /\ result.tts_result = NoMsg
             /\ CallsOf({"llm", "agent", "tts"}) = {}
    /\ \A i \in CallsOf({"llm", "agent"}) :
          ReturnedEmpty(i) =>
             /\ pc = "returned" /\ result.error = None
             /\ result.tts_result = NoMsg
             /\ CallsOf({"tts"}) = {}

\* C3 witness: the ASR engine returned an object with empty text on a pipeline
\* that has LLM and TTS engines, and the call has returned
C3_Witness ==
    /\ pc = "returned" /\ llm_engine /\ tts_engine /\ ~skip_llm /\ ~skip_tts
    /\ \E i \in CallsOf({"asr"}) : Ended(i) /\ calls[i].ret = Returned(Msg(""))

\* the effective use_agent flag of the invocation
EffectiveUseAgent == IF use_agent = None THEN self_use_agent ELSE use_agent = "True"

\* C4 (as claimed): a returned call that reached the LLM/Agent stage and did
\* not skip it invoked exactly one of the two engines, the Agent iff the
\* effective flag is true, and at most one of agent_result and llm_result is set.
C4_ExactlyOneEngine ==
    /\ pc = "returned" /\ ~skip_llm /\ LlmStageReached =>
          /\ Cardinality(CallsOf({"llm", "agent"})) = 1
          /\ EffectiveUseAgent => CallsOf({"agent"}) /= {}
          /\ ~EffectiveUseAgent => CallsOf({"llm"}) /= {}
    /\ ~(IsObj(result.agent_result) /\ IsObj(result.llm_result))

\* C4 (amended): a call invokes at most one of the two engines, at most once:
\* the Agent engine only if the effective flag is true and an Agent engine
\* exists, the LLM engine only otherwise; a returned call that reached the
\* LLM/Agent stage without skipping it invoked exactly that engine when it
\* exists, and none (error set) when it does not; at most one of agent_result
\* and llm_result is set.
C4_AtMostOneEngine ==
    /\ Cardinality(CallsOf({"llm", "agent"})) <= 1
    /\ CallsOf({"agent"}) /= {} => ~skip_llm /\ EffectiveUseAgent /\ agent_engine
    /\ CallsOf({"llm"}) /= {} => ~skip_llm /\ ~(EffectiveUseAgent /\ agent_engine) /\ llm_engine
    /\ pc = "returned" /\ ~skip_llm /\ LlmStageReached =>
          /\ EffectiveUseAgent /\ agent_engine => CallsOf({"agent"}) /= {}
          /\ ~(EffectiveUseAgent /\ agent_engine) /\ llm_engine => CallsOf({"llm"}) /= {}
          /\ ~(EffectiveUseAgent /\ agent_engine) /\ ~llm_engine =>
                CallsOf({"llm", "agent"}) = {} /\ result.error /= None
    /\ ~(IsObj(result.agent_result) /\ IsObj(result.llm_result))

\* C4 witness: the per-call flag overrides a pipeline configured for the Agent,
\* and the LLM engine alone was invoked
C4_Witness ==
    /\ pc = "returned" /\ self_use_agent /\ use_agent = "False" /\ ~skip_llm
    /\ CallsOf({"llm"}) /= {} /\ CallsOf({"agent"}) = {}
    /\ IsObj(result.llm_result)

\* C5: the TTS engine is invoked at most once, only after the LLM or Agent call
\* of the invocation returned a non-empty reply, and with that reply: the
\* Agent's when an Agent result is present, otherwise the LLM's.
C5_TtsAfterReply ==
    /\ Cardinality(CallsOf({"tts"})) <= 1
    /\ \A i \in CallsOf({"tts"}) :
          /\ \E j \in CallsOf({"llm", "agent"}) :
                j < i /\ ReturnedText(j) /\ calls[i].arg = calls[j].ret.value.text
          /\ calls[i].arg = IF IsObj(result.agent_result) THEN result.agent_result.text
                            ELSE result.llm_result.text

\* C5 witness: TTS was invoked with the Agent's reply
C5_Witness ==
    \E i \in CallsOf({"tts"}) :
        /\ calls[i].arg = "world" /\ result.agent_result = Msg("world")
        /\ calls[i].ret = Returned(Audio("world"))

\* the exception a stage raises when its engine is missing
MissingEngineError(stage) ==
    CASE stage = "asr" -> "ASR engine not initialized"
      [] stage = "llm" -> "LLM engine and Agent engine not initialized"
      [] stage = "tts" -> "TTS engine not initialized"

SkipsRespected ==
    /\ skip_asr \/ Truthy(text_input) =>
          CallsOf({"asr"}) = {} /\ exc /= MissingEngineError("asr")
    /\ skip_llm => CallsOf({"llm", "agent"}) = {} /\ exc /= MissingEngineError("llm")
    /\ skip_tts => CallsOf({"tts"}) = {} /\ exc /= MissingEngineError("tts")

\* C6 (as claimed): a skipped stage never invokes its engine and raises no
\* missing-engine error; every returned call with a stage that is not skipped
\* and has no engine carries an error.
C6_SkipFlags ==
    /\ SkipsRespected
    /\ pc = "returned" =>
          /\ ~(skip_asr \/ Truthy(text_input)) /\ ~asr_engine => result.error /= None
          /\ ~skip_llm /\ ~llm_engine /\ ~agent_engine => result.error /= None
          /\ ~skip_tts /\ ~tts_engine => result.error /= None

\* C6 (amended): a skipped stage (ASR: skip_asr or a non-empty text_input)
\* never invokes its engine and raises no missing-engine error; every returned
\* call that reached a stage which is not skipped and has no engine to run
\* carries an error.
C6_SkipFlagsReached ==
    /\ SkipsRespected
    /\ pc = "returned" /\ ReachedStageLacksEngine => result.error /= None

\* C6 witness: text_input stands in for a missing ASR engine without error,
\* and the TTS stage, reached and not skipped, fails for its missing engine
C6_Witness ==
    /\ pc = "returned" /\ ~skip_asr /\ text_input = "hello" /\ ~asr_engine
    /\ CallsOf({"asr"}) = {} /\ CallsOf({"llm"}) /= {}
    /\ ~skip_tts /\ ~tts_engine
    /\ result.error = "pipeline failed: TTS engine not initialized"

-----------------------------------------------------------------------------
(* Properties of the conversation contexts *)

\* C7: for every id, the messages of get_context(id) are the messages passed
\* to update_context(id, .) so far, in call order, whatever get_context calls
\* and updates of other ids came between.
C7_HistoryIsCallSequence ==
    \A id \in ClientIds :
        /\ sent[id] /= <<>> => id \in DOMAIN contexts
        /\ id \in DOMAIN contexts => contexts[id].messages = sent[id]
        /\ get_context(contexts, id, now, uuid_count)[id].messages = sent[id]

\* C7 witness: three updates of one id interleaved with an update of another id
C7_Witness ==
    \E id, other \in ClientIds :
        /\ id /= other /\ Len(sent[id]) = 2 /\ Len(sent[other]) = 1
        /\ sent[id][1] /= sent[id][2]
        /\ contexts[id].messages = sent[id]
        /\ contexts[id].last_access > contexts[id].created_at

\* C11: a call of clear_old_contexts removes exactly the contexts whose
\* last_access lies more than max_age_hours back, returns their number and
\* leaves every other context as it was; every other step deletes no context,
\* and a context it creates or changes has its last_access set to the current
\* time, so that a context accessed within the window survives the sweep.
C11_SweepStep ==
    /\ sweep'.n /= sweep.n =>
          LET h == sweep'.max_age_hours
              gone == {c \in DOMAIN contexts :
                          now - contexts[c].last_access > h * 3600}
          IN  /\ DOMAIN contexts' = DOMAIN contexts \ gone
              /\ \A c \in DOMAIN contexts' : contexts'[c] = contexts[c]
              /\ sweep'.returned = Cardinality(gone)
    /\ sweep'.n = sweep.n =>
          /\ DOMAIN contexts \subseteq DOMAIN contexts'
          /\ \A c \in DOMAIN contexts' :
                c \notin DOMAIN contexts \/ contexts'[c] /= contexts[c]
                   => contexts'[c].last_access = now

C11_SweepRemovesOld == [][C11_SweepStep]_vars

\* C11 witness: a sweep has removed one context and kept another that was
\* created longer ago than the window but accessed within it
C11_Witness ==
    /\ sweep.n > 0 /\ sweep.returned = 1
    /\ \E c \in DOMAIN contexts :
          /\ DOMAIN contexts = {c}
          /\ contexts[c].messages /= <<>>
          /\ now - contexts[c].created_at > sweep.max_age_hours * 3600
          /\ now - contexts[c].last_access <= sweep.max_age_hours * 3600
          /\ now - contexts[c].last_access > 0

\* a turn: a dict with a role of user or assistant
RoleTagged(m) == "role" \in DOMAIN m /\ m.role \in {"user", "assistant"}

\* C12: every entry of every context's messages is a turn with a role of user
\* or assistant, whichever endpoint stored it.
C12_EveryEntryRoleTagged ==
    \A c \in DOMAIN contexts :
        \A i \in 1..Len(contexts[c].messages) : RoleTagged(contexts[c].messages[i])

-----------------------------------------------------------------------------
(* Properties of the WebSocket connections *)

Released(c) == ~c.processor /\ ~c.chain /\ ~c.config

\* C13: a disconnect(id) that finds the connection removes the id's audio
\* processor, LLM chain and user configuration before it closes the socket,
\* and has removed the connection record when it ends, whether close returned
\* or raised; a disconnect of an id that is not connected changes nothing; no
\* disconnect ever raises, also not the one of two overlapping disconnects
\* that finds the record already deleted when its close ends.
C13_DisconnectStep ==
    \A d \in Disconnects :
        /\ dis[d].pc = "idle" /\ dis'[d].pc /= "idle" =>
              IF conn.active
                THEN Released(conn') /\ dis'[d].pc = "closing"
                ELSE conn' = conn /\ dis'[d].pc = "done"
        /\ dis[d].pc /= "done" /\ dis'[d].pc = "done" =>
              /\ ~dis'[d].raised
              /\ ~conn'.active /\ (dis'[d].found => Released(conn'))
        /\ ~dis'[d].raised

C13_DisconnectReleases == [][C13_DisconnectStep]_vars

\* C13 witness: two disconnects overlapped at the close of the socket, the
\* close of one of them raised, and both have ended with everything removed
C13_Witness ==
    /\ \A d \in Disconnects : dis[d].pc = "done" /\ dis[d].found /\ ~dis[d].raised
    /\ \E d \in Disconnects : dis[d].close_raised
    /\ ~conn.active /\ Released(conn) /\ conn.connected

\* C14 (as claimed): once a disconnect of the connection has completed, the
\* task started for it calls no provider and sends nothing for the id.
C14_NoWorkAfterDisconnect == late = {}

-----------------------------------------------------------------------------
(* Properties of the engine pool *)

GetsOf(k) == {i \in DOMAIN gets : gets[i].key = k}

\* C15 (as claimed): an engine that was asked for was constructed exactly
\* once, and all its callers got one and the same instance.
C15_ExactlyOneConstruction ==
    \A k \in Keys : GetsOf(k) /= {} =>
        /\ attempts[k] = 1
        /\ \A i, j \in GetsOf(k) : gets[i].got /= 0 /\ gets[i].got = gets[j].got

\* C15 (amended): the first construction that succeeds is cached; every
\* later call for the key returns that instance and constructs nothing, so
\* the constructions attempted for a key are the failed calls plus at most
\* one; a failed construction returns None; keys of different kinds with the
\* same name never share an instance.
C15_OneInstancePerKey ==
    /\ \A k \in Keys :
          /\ \A i, j \in GetsOf(k) : i < j /\ gets[i].got /= 0 => gets[j].got = gets[i].got
          /\ Cardinality({gets[i].got : i \in GetsOf(k)} \ {0}) <= 1
          /\ attempts[k] = Cardinality({i \in GetsOf(k) : gets[i].got = 0})
                              + (IF engines[k] /= 0 THEN 1 ELSE 0)
          /\ \A i \in GetsOf(k) : gets[i].got /= 0 => engines[k] = gets[i].got
    /\ \A i, j \in DOMAIN gets :
          gets[i].key /= gets[j].key /\ gets[i].got /= 0 => gets[i].got /= gets[j].got

\* C15 witness: two calls for one key got the same instance, constructed
\* once, and a call for the same name under another kind got a different one
C15_Witness ==
    /\ Len(gets) = 3
    /\ gets[1].key = <<"llm", "minimax">> /\ gets[3].key = gets[1].key
    /\ gets[2].key = <<"tts", "minimax">>
    /\ gets[1].got /= 0 /\ gets[3].got = gets[1].got
    /\ gets[2].got /= 0 /\ gets[2].got /= gets[1].got
    /\ attempts[gets[1].key] = 1

\* C16 (as claimed): when closeAll has ended it has not raised, and every
\* engine that was cached when it began has been released exactly once.
C16_CloseAllReleasesAll ==
    cl.pc = "done" =>
        /\ ~cl.raised
        /\ \A k \in cl.cached0 : closed[k] = 1

-----------------------------------------------------------------------------
(* Properties of the retry-wrapped calls *)

\* C17 (as claimed): a call that ended on a caller-fault error of the provider
\* made one attempt; a call that ended on a transient error of the provider
\* made three; no call makes more than three attempts.
C17_RetryExclusion ==
    /\ rt.tries <= 3
    /\ \A i \in DOMAIN rlog :
          /\ rlog[i].attempts <= 3
          /\ rlog[i].last = "ValueError" => rlog[i].attempts = 1
          /\ rlog[i].last = "ConnectionError" => rlog[i].attempts = 3

-----------------------------------------------------------------------------
(* Properties of the audio cache *)

\* C18: a get_cached_audio(key) made after a save_to_cache(key, b) that
\* succeeded, with no later write of the key begun, returns exactly b and
\* leaves the file as it is when less than the TTL has passed since that
\* write, however many reads came before; when more than the TTL has passed
\* it returns None and the file is gone. No read changes the file of another key.
C18_ReadStep ==
    rd'.n /= rd.n =>
       LET k == rd'.key IN
       /\ saved[k].valid /\ now - saved[k].at < 604800 =>
             rd'.got = saved[k].data /\ files'[k] = files[k]
       /\ saved[k].valid /\ now - saved[k].at > 604800 =>
             rd'.got = None /\ ~files'[k].exists
       /\ \A j \in CacheKeys \ {k} : files'[j] = files[j]

-----------------------------------------------------------------------------
(* Properties of text_to_speech *)

\* two calls that returned one right after the other, with the same text and
\* use_cache set, the first having asked the provider and succeeded
SuccessivePairs ==
    {i \in 1..(Len(speeches) - 1) :
        /\ speeches[i].text = speeches[i + 1].text
        /\ speeches[i].use_cache /\ speeches[i + 1].use_cache
        /\ speeches[i].called /\ speeches[i].success}

\* the second call of a pair is served from the cache with the first call's bytes
ServedFromCache(i) ==
    /\ ~speeches[i].from_cache
    /\ speeches[i + 1].success /\ speeches[i + 1].from_cache
    /\ ~speeches[i + 1].called
    /\ speeches[i + 1].audio_data = speeches[i].audio_data

CacheKept(i) ==
    /\ speeches[i].save_ok /\ speeches[i].audio_data /= ""
    /\ speeches[i + 1].read_ok /\ speeches[i + 1].soon

C33_ReadNeverPartial == rd.n > 0 => rd.got \in Bytes \cup {None}

\* a step in which text_to_speech is entered, and one in which it returns
\* after the provider answered
SpeechEntered == speech.pc = "idle" /\ speech'.n /= speech.n
SpeechAnswered == speech.pc = "post" /\ speech'.pc = "idle"

\* the step writes the entry of key k: the file is there afterwards and is not
\* the file that was there before
WritesEntry(k) == files'[k].exists /\ files'[k] /= files[k]

\* C32: text_to_speech writes a cache entry only on the return of a call that
\* got audio from the provider with use_cache set; the return of a call whose
\* provider request failed changes no file; and a call with use_cache off
\* changes no file, is never answered from the cache and always reaches the
\* provider.
C32_CacheStep ==
    LET r == speeches'[Len(speeches')] IN
    /\ (\E k \in CacheKeys : WritesEntry(k)) =>
           (SpeechAnswered /\ r.success /\ r.use_cache /\ r.called)
    /\ (SpeechAnswered /\ ~r.success) => files' = files
    /\ (SpeechAnswered /\ ~r.use_cache) => (files' = files /\ ~r.from_cache)
    /\ (SpeechEntered /\ speech'.pc = "post" /\ ~speech'.use_cache) => files' = files
    /\ (SpeechEntered /\ speech'.pc = "idle") => (r.use_cache /\ r.from_cache)
-----------------------------------------------------------------------------
(* Properties of tts_only *)

\* C20: of two successive tts_only calls with the same text, the first of
\* which returned audio, the second returns the same bytes without a request
\* to the provider, taking them from the TTS cache.
C20_SecondFromTtsCache ==
    \A i \in 1..(Len(synths) - 1) :
        synths[i].text = synths[i + 1].text /\ synths[i].value /= NoMsg =>
            /\ synths[i + 1].value = synths[i].value
            /\ ~synths[i + 1].posted

-----------------------------------------------------------------------------
(* Properties of the engine objects *)

\* the required keys of the object's class that its config lacks
MissingKeys == {k \in ConfigKeys :
                  /\ \E i \in 1..Len(checkKeys(eng.cls)) : checkKeys(eng.cls)[i] = k
                  /\ k \notin eng.cfg}

\* C21: an engine constructed from a config that lacks a required key failed
\* with an error naming a missing key and the class, with setup() not run and
\* no client or session created; one constructed from a config with every
\* required key ran setup() once.
C21_MissingKeyFailsBeforeSetup ==
    eng.state /= "none" =>
       /\ MissingKeys /= {} =>
             /\ eng.state = "raised"
             /\ eng.error.key \in MissingKeys /\ eng.error.cls = ClassName(eng.cls)
             /\ eng.setup_runs = 0 /\ eng.clients = 0 /\ eng.session = "unset"
       /\ MissingKeys = {} => eng.setup_runs = 1

\* C21 witness: a Deepgram TTS engine was refused for its second key, a later
\* one missing too
C21_Witness ==
    /\ eng.cls = "tts.DeepgramAPI" /\ eng.state = "raised"
    /\ MissingKeys = {"API_KEY", "MODEL"}
    /\ eng.error = [exc |-> "KeyError", cls |-> "DeepgramAPI", key |-> "API_KEY"]
    /\ eng.setup_runs = 0

-----------------------------------------------------------------------------
(* Properties of the engines' run() *)

\* C22: a run() returned None only when there was nothing to say (no speech
\* recognized, no reply produced), and a transport, timeout, authentication or
\* malformed-response failure ended in an error, not in None.
C22_NoneOnlyWhenEmpty ==
    \A i \in 1..Len(runs) :
        /\ (~runs[i].raised /\ runs[i].value = NoMsg) => runs[i].answer = "empty"
        /\ runs[i].answer \in ProviderFailures => runs[i].raised

\* a step in which agent_query merged the contexts and called the agent
AgentCalled == aq.pc = "idle" /\ aq'.pc = "agent"

\* C26: the context agent_query passes to the agent has the keys of the stored
\* context and of the caller's context, carries the caller's value for every
\* key the caller gave and the stored value for every other key, and the
\* stored context is what get_context returned, unchanged by the merge.
C26_MergeStep ==
    AgentCalled =>
       LET stored == contexts'[aq'.context_id]
           caller == IF aq'.request_context.given THEN aq'.request_context.dict ELSE NoDict
           passed == aq'.merged_context
       IN  /\ DOMAIN passed = DOMAIN stored \cup DOMAIN caller
           /\ \A key \in DOMAIN passed :
                  passed[key] = IF key \in DOMAIN caller THEN caller[key] ELSE stored[key]
           /\ stored = get_context(contexts, aq'.context_id, now, uuid_count)[aq'.context_id]
C26_CallerKeysWin == [][C26_MergeStep]_vars

\* C26 witness: the agent is running with the caller's messages while the
\* stored context of the conversation still holds its own, different messages
C26_Witness ==
    /\ aq.pc = "agent" /\ aq.request_context.given
    /\ "messages" \in DOMAIN aq.request_context.dict
    /\ aq.merged_context["messages"] = aq.request_context.dict["messages"]
    /\ aq.merged_context["user"] = "u1"
    /\ contexts[aq.context_id].messages = <<Entry("assistant", "world")>>

-----------------------------------------------------------------------------
(* Properties of the registries and factories *)

\* a create call was just made with a name its factory does not know
UnknownName ==
    /\ fcall.op = "create"
    /\ IF fcall.registry = "AGENT" THEN Lower(fcall.name) /= "openai"
       ELSE fcall.name \notin List(registries[fcall.registry])

\* C24: a create with a name that is not registered raised an error listing
\* the registered names, and no create returned without an engine and without
\* raising, whatever the kind of engine.
C24_CreateNeverSilent ==
    fcall.op = "create" =>
       /\ UnknownName => fcall.raised = "RuntimeError"
       /\ (UnknownName /\ fcall.registry /= "AGENT") =>
              fcall.listed = List(registries[fcall.registry])
       /\ fcall.value = None => fcall.raised /= None

\* a register call of the step, on registry r
Registering(r) == fcall'.n /= fcall.n /\ fcall'.op = "register" /\ fcall'.registry = r

\* a step that registers a name already taken fails and changes no registry;
\* a step that registers in one registry changes no other
RegisterStepOn(rs) ==
    \A r \in rs :
        Registering(r) =>
           /\ fcall'.name \in List(registries[r]) =>
                  fcall'.raised /= None /\ registries' = registries
           /\ \A o \in Registries \ {r} : registries'[o] = registries[o]

\* C25 as stated: in every engine registry a second registration of a name is
\* an error that leaves the mapping unchanged, and registries are independent.
C25_RegisterStep == RegisterStepOn(Registries)
C25_NamesUnique == [][C25_RegisterStep]_vars

\* C25 amended: the same, for the registries of src/engine/builder.py (ASR,
\* LLM, TTS), which are utils.registry.Registry dicts.
C25_BuilderRegisterStep == RegisterStepOn(BuilderRegistries)
C25_BuilderNamesUnique == [][C25_BuilderRegisterStep]_vars

\* C25 witness: the TTS registry refused a second DeepgramAPI and kept the
\* first, while the ASR registry holds another class under the same name
C25_Witness ==
    /\ fcall.op = "register" /\ fcall.registry = "TTS" /\ fcall.raised = "AssertionError"
    /\ fcall.name = "DeepgramAPI" /\ fcall.class = [mod |-> "asr", cls |-> "DeepgramAPI"]
    /\ registries["TTS"]["DeepgramAPI"] = [mod |-> "tts", cls |-> "DeepgramAPI"]
    /\ registries["ASR"]["DeepgramAPI"] = [mod |-> "asr", cls |-> "DeepgramAPI"]

-----------------------------------------------------------------------------
(* Properties of transcribe *)

\* the format argument names one of the values of AudioFormatType
KnownFormat(format) == \E name \in AudioFormatTypes : Contains(format, name)

\* C27: audio whose format is given and is not one of mp3, wav, webm, ogg is
\* rejected before any ASR engine runs: no engine call is made for it.
C27_UnknownFormatRejected ==
    (tr.n > 0 /\ tr.format /= None /\ ~KnownFormat(tr.format)) => tr.asr_runs = 0

-----------------------------------------------------------------------------
(* Properties of the single-stage entry points *)

\* C28: a single-stage entry point calls no engine but its own and that one at
\* most once, raises nothing, returns None when its engine is missing or the
\* engine call raised, and otherwise returns what the engine returned.
C28_SingleStage ==
    single.n > 0 =>
       /\ Len(single.engine_calls) <= 1
       /\ \A i \in 1..Len(single.engine_calls) :
             single.engine_calls[i].engine = EngineOf(single.entry)
       /\ single.raised = None
       /\ single.pc = "idle" =>
             /\ ~single.had_engine => (single.returned = NoMsg /\ single.engine_calls = <<>>)
             /\ single.exception /= None => single.returned = NoMsg
             /\ (single.had_engine /\ single.exception = None) =>
                    (single.returned = single.answer /\ Len(single.engine_calls) = 1)

\* C28 witness: tts_only returned None after its engine, given the str as a
\* TextMessage, raised
C28_Witness ==
    /\ single.pc = "idle" /\ single.entry = "tts_only" /\ single.exception = "RuntimeError"
    /\ single.engine_calls = <<[engine |-> "tts", arg |-> TextMessage("hello")]>>
    /\ single.returned = NoMsg

-----------------------------------------------------------------------------
(* Properties of WebSockets that share a client_id *)

\* the handler of s takes a step of its cleanup
CleansUp(s) == sockets[s].pc \in {"cleanup", "closing"} /\ sockets'[s].pc /= sockets[s].pc

\* t is open and its handler is serving it
StillOpen(t) == sockets[t].pc = "serving" /\ sockets[t].state = "open"

\* C29: a cleanup step of one WebSocket's handler leaves every other
\* WebSocket that is still open open, and leaves its record in place.
C29_CleanupStep ==
    \A s, t \in SocketIds :
        (s /= t /\ CleansUp(s) /\ StillOpen(t)) =>
            /\ sockets'[t].state = "open"
            /\ manager.active = t => manager'.active = t
C29_CleanupSparesOthers == [][C29_CleanupStep]_vars

\* C30: whenever the manager holds a processor, chain, config, ping time or
\* latency for the id, it holds an active connection for it.
C30_EntriesHaveConnection ==
    (manager.processor \/ manager.chain \/ manager.config \/ manager.last_ping
       \/ manager.latency) => manager.active /= NoSocket

-----------------------------------------------------------------------------
(* Properties of the provider settings *)

\* C31: the provider stored for each stage of a connection's config is one of
\* the providers allowed for that stage.
C31_ProvidersAllowed ==
    ucfg.exists => \A stage \in Stages : ucfg.providers[stage] \in API_PROVIDERS[stage]

-----------------------------------------------------------------------------
(* Properties of a failed getEngine *)

\* a getEngine call is made in the step
Gets == Len(gets') = Len(gets) + 1

\* C35: a getEngine whose construction fails returns None and leaves the
\* pool's dict as it was; every getEngine of a key that is not cached attempts
\* the construction; and the dict changes only at the key of a call that
\* returned the engine it built.
C35_GetStep ==
    Gets =>
       LET g == gets'[Len(gets')] IN
       /\ g.failed => (g.got = 0 /\ engines' = engines)
       /\ ~Cached(engines, g.key) => attempts'[g.key] = attempts[g.key] + 1
       /\ \A k \in Keys :
              engines'[k] /= engines[k] => (k = g.key /\ ~g.failed /\ g.got = engines'[k])
C35_FailureNotCached == [][C35_GetStep]_vars

\* C35 witness: two getEngine calls of a key failed, each after an attempt,
\* and the third built the engine
C35_Witness ==
    /\ Len(gets) = 3
    /\ \A i \in 1..3 : gets[i].key = <<"tts", "minimax">>
    /\ gets[1].failed /\ gets[2].failed /\ ~gets[3].failed
    /\ attempts[<<"tts", "minimax">>] = 3
    /\ engines[<<"tts", "minimax">>] = gets[3].got /\ gets[3].got /= 0

-----------------------------------------------------------------------------
(* Properties of compute_content_hash *)

\* the key-value pairs of a dict, whatever their order
Pairs(extra_params) == {extra_params[i] : i \in DOMAIN extra_params}

\* two requests agree on text, voice id and every extra parameter
SameRequest(r1, r2) ==
    /\ r1.text = r2.text /\ r1.voice_id = r2.voice_id
    /\ Pairs(r1.extra_params) = Pairs(r2.extra_params)

\* requests that agree get the same key, in whatever order their parameters come
HashDeterministic ==
    (hashed.second.done /\ SameRequest(hashed.first, hashed.second))
        => hashed.first.key = hashed.second.key

\* C34: two requests with the same cache key agree on text, voice id and
\* every extra parameter.
C34_SameKeySameRequest ==
    (hashed.second.done /\ hashed.first.key = hashed.second.key)
        => SameRequest(hashed.first, hashed.second)

-----------------------------------------------------------------------------
(* Properties of the WebRTCHandler *)

\* at most one transcription session is open for the id, and only under an entry
OneSession == rtc.sessions <= 1 /\ (rtc.sessions = 1 => rtc.present)

\* C36: the id has at most one session; close_connection leaves no entry; and
\* after update_language on an id that had a session the id has a session,
\* with the language asked for.
C36_OneSessionKept ==
    /\ OneSession
    /\ rtc.last.op = "close" => ~rtc.present
    /\ (rtc.last.op = "update_language" /\ rtc.last.had) =>
           (rtc.present /\ rtc.live_transcription /\ rtc.language = rtc.last.language)

\* a step that handles a config message without a language key
ConfigWithoutLanguage == rtc'.last.op = "config" /\ rtc'.last.language = None

\* C37: a config message without a language key leaves the language of the
\* connection's live transcription as it was.
C37_ConfigStep == ConfigWithoutLanguage => rtc'.language = rtc.language
C37_LanguageKept == [][C37_ConfigStep]_vars

-----------------------------------------------------------------------------
(* Properties of split_text_into_sentences *)

\* the chunks one after another
RECURSIVE Joined(_)
Joined(chunks) == IF chunks = <<>> THEN <<>> ELSE Head(chunks) \o Joined(Tail(chunks))

\* every chunk has a character and at most max_chars of them
ChunksSized ==
    \A i \in 1..Len(split.chunks) :
        Len(split.chunks[i]) >= 1 /\ Len(split.chunks[i]) <= split.max_chars

\* text is the chunks in order, with nothing or one space between two of them
RECURSIVE JoinsTo(_, _)
JoinsTo(chunks, text) ==
    IF chunks = <<>> THEN text = <<>>
    ELSE LET n == Len(Head(chunks)) IN
         /\ Len(text) >= n /\ SubSeq(text, 1, n) = Head(chunks)
         /\ \/ JoinsTo(Tail(chunks), SubSeq(text, n + 1, Len(text)))
            \/ /\ Tail(chunks) /= <<>> /\ Len(text) > n /\ text[n + 1] = " "
               /\ JoinsTo(Tail(chunks), SubSeq(text, n + 2, Len(text)))

\* C38 as stated: the chunks are non-empty, at most max_chars long, and their
\* concatenation in order is the text.
C38_ChunksConcatenate ==
    split.done => (ChunksSized /\ Joined(split.chunks) = split.text)

\* C38 amended: the chunks are non-empty, at most max_chars long, and the text
\* is the chunks in order with nothing or one space between consecutive chunks.
C38_ChunksJoin ==
    split.done => (ChunksSized /\ JoinsTo(split.chunks, split.text))

\* C38 witness: a text broken at its space, which neither chunk holds
C38_Witness ==
    /\ split.done /\ split.max_chars = 7
    /\ split.text = <<"a", "a", "a", "a", "a", " ", "a", "a">>
    /\ split.chunks = <<<<"a", "a", "a", "a", "a">>, <<"a", "a">>>>

-----------------------------------------------------------------------------
(* Properties of text_chat *)

\* the two entries of request r
Turn(r) == <<Entry("user", rq[r].text), Entry("assistant", rq[r].llm_result.text)>>

\* what request r has stored in context c
Stored(r, c) ==
    IF rq[r].pc = "done" /\ rq[r].status = 200 /\ rq[r].context_id = c
      THEN Turn(r) ELSE <<>>

Prior(c) == IF c \in DOMAIN history0 THEN history0[c] ELSE <<>>

Orders == {f \in [Requests -> Requests] : \A a, b \in Requests : f[a] = f[b] => a = b}

RECURSIVE StoredInOrder(_, _, _)
StoredInOrder(f, c, n) ==
    IF n = 0 THEN <<>> ELSE StoredInOrder(f, c, n - 1) \o Stored(f[n], c)

\* C8: whatever the interleaving of concurrent text_chat requests at their
\* awaits, the history of every context is what it was before, followed by the
\* user/assistant pairs of the requests that completed on it, pair after pair
\* in some order; two completed requests on one context add exactly four
\* messages.
C8_SerialHistory ==
    /\ \A c \in DOMAIN contexts :
          \E f \in Orders :
             contexts[c].messages = Prior(c) \o StoredInOrder(f, c, NumRequests)
    /\ \A a, b \in Requests :
          /\ a /= b /\ rq[a].pc = "done" /\ rq[b].pc = "done"
          /\ rq[a].status = 200 /\ rq[b].status = 200
          /\ rq[a].context_id = rq[b].context_id
          /\ \A q \in Requests \ {a, b} : Stored(q, rq[a].context_id) = <<>>
          => LET h == contexts[rq[a].context_id].messages
                 p == Prior(rq[a].context_id)
             IN  /\ Len(h) = Len(p) + 4
                 /\ h \in {p \o Turn(a) \o Turn(b), p \o Turn(b) \o Turn(a)}

\* C8 witness: two requests that overlapped on one context have both
\* completed, and the one that started first stored its pair last
C8_Witness ==
    /\ rq[1].pc = "done" /\ rq[2].pc = "done"
    /\ rq[1].status = 200 /\ rq[2].status = 200
    /\ rq[1].context_id = rq[2].context_id
    /\ rq[1].overlapped /\ rq[2].overlapped
    /\ rq[1].text /= rq[2].text
    /\ history0 /= <<>>
    /\ contexts[rq[1].context_id].messages = EarlierTurn \o Turn(2) \o Turn(1)

\* messages of the contexts that exist
MessagesKept ==
    \A c \in DOMAIN contexts :
        c \in DOMAIN contexts' /\ contexts'[c].messages = contexts[c].messages

\* C9: a step that ends a text_chat request whose LLM call produced a reply
\* answers 200 with the context id and appends to that context exactly the
\* entries {user, text}, {assistant, reply}, whether or not TTS gave audio; a
\* step that ends a request without a reply answers 500 and leaves all
\* messages as they were; no other step changes any messages; a request
\* without context_id gets a context that did not exist, under a generated id.
C9_TextChatStep ==
    /\ \A r \in Requests :
          rq[r].pc /= "done" /\ rq'[r].pc = "done" =>
             IF IsObj(rq'[r].llm_result)
               THEN LET c == rq'[r].context_id IN
                    /\ rq'[r].status = 200
                    /\ rq'[r].response.context_id = c
                    /\ rq'[r].response.response_text = rq'[r].llm_result.text
                    /\ rq'[r].response.audio_data = rq'[r].audio_output
                    /\ c \in DOMAIN contexts /\ c \in DOMAIN contexts'
                    /\ contexts'[c].messages = contexts[c].messages \o
                          <<Entry("user", rq'[r].text),
                            Entry("assistant", rq'[r].llm_result.text)>>
                    /\ \A d \in DOMAIN contexts \ {c} :
                          contexts'[d].messages = contexts[d].messages
               ELSE rq'[r].status = 500 /\ MessagesKept
    /\ (\A r \in Requests : rq'[r].pc = "done" => rq[r].pc = "done") => MessagesKept
    /\ \A c \in DOMAIN contexts' \ DOMAIN contexts : contexts'[c].messages = <<>>
    /\ \A r \in Requests :
          rq[r].pc = "idle" /\ rq'[r].pc /= "idle" /\ pipeline
          /\ rq'[r].request_context_id = NoId =>
             /\ rq'[r].context_id.kind = "uuid"
             /\ rq'[r].context_id \notin DOMAIN contexts
             /\ rq'[r].context_id \in DOMAIN contexts'

C9_TextChatAppends == [][C9_TextChatStep]_vars

\* C9 witness: a request without context_id whose TTS call failed has answered
\* 200 without audio under a generated id, with its two entries stored
C9_Witness ==
    \E r \in Requests :
        /\ rq[r].pc = "done" /\ rq[r].status = 200
        /\ rq[r].request_context_id = NoId /\ rq[r].context_id.kind = "uuid"
        /\ rq[r].response.context_id = rq[r].context_id
        /\ ~rq[r].skip_tts /\ tts_engine /\ rq[r].response.audio_data = NoMsg
        /\ contexts[rq[r].context_id].messages = Turn(r)

-----------------------------------------------------------------------------
(* Properties of audio_chat *)

\* every stage of the process() call that was not skipped produced its result
AllStagesSucceeded ==
    /\ pc = "returned" /\ result.error = None
    /\ ~skip_asr => \E i \in CallsOf({"asr"}) : ReturnedText(i)
    /\ ~skip_llm => \E i \in CallsOf({"llm", "agent"}) : ReturnedText(i)
    /\ ~skip_tts /\ ~skip_llm => IsObj(result.tts_result)

\* C10 (as claimed): an audio_chat request that got as far as process()
\* answers 500 only if the result carries an error; when every stage
\* succeeded it answers 200 with the context id and has appended a user entry
\* then an assistant entry; when ASR recognised nothing it does not answer 500.
C10_AudioChatStatus ==
    ac.pc = "done" /\ pc = "returned" =>
       /\ ac.status = 500 => result.error /= None
       /\ AllStagesSucceeded =>
             /\ ac.status = 200 /\ ac.response.context_id = ac.context_id
             /\ LET h == contexts[ac.context_id].messages IN
                /\ Len(h) >= 2
                /\ h[Len(h) - 1].role = "user" /\ h[Len(h)].role = "assistant"
       /\ (\E i \in CallsOf({"asr"}) : ReturnedEmpty(i)) => ac.status /= 500

====
